---- MODULE Spec2Model ----
(***************************************************************************)
(* State-machine model of the oscillator-lattice engine of                 *)
(* src/hooks/useSimulation.ts (hook useSimulation: initGrid, getNeighbors, *)
(* updatePhysics, animate, toggleRun, activateElysiumGateway,              *)
(* injectPattern), with the constants of src/App.tsx.                      *)
(*                                                                         *)
(* Numbers.  JavaScript numbers are modelled in fixed point:               *)
(*   - amplitudes, gains, frequencies, Cartesian projections, coupling,    *)
(*     noise, dt, intensity, radius and the metrics are integers in units  *)
(*     of 1/SCALE (SCALE = 10^4, so TARGET_AMP = 0.7071 is 7071);          *)
(*   - angles are integers in millidegrees, so that 2*pi is TWO_PI =       *)
(*     360000, pi/6 is 30000 and the golden angle 137.508 deg is 137508;   *)
(*   - Math.sin / Math.cos are a one-degree table with linear              *)
(*     interpolation, Math.atan2 its inverse, Math.sqrt the integer square *)
(*     root, Math.log a table over the rationals count/TOTAL_NODES.        *)
(* Objects.  Node records live in a heap; the arrays gridRef.current and   *)
(* displayGrid hold references (heap ids), so that the shallow copies      *)
(* `[...gridRef.current]` share node records exactly as the code does.     *)
(***************************************************************************)
EXTENDS Integers, Sequences, FiniteSets, TLC

(* ------------------------------------------------------------------------ *)
(* Bounds of the model                                                      *)
(* ------------------------------------------------------------------------ *)

\* Side of the lattice (72 in src/App.tsx:314; reduced here).
GRID_SIZE == 4

\* Largest value of stepRef explored by Spec.
MaxStep == 2

\* Largest number of injections (injectPattern / activateElysiumGateway) in a run of Spec.
MaxInject == 1

\* Number of distinct outcomes of the Math.random() stream explored at each use.
MaxSeed == 2

\* Largest value of stepRef explored by SpecHist (beyond the capacity of the history).
MaxStepHist == 103

(* ------------------------------------------------------------------------ *)
(* Program constants (src/App.tsx:314-323), in fixed point                  *)
(* ------------------------------------------------------------------------ *)

SCALE == 10 ^ 4

TOTAL_NODES == GRID_SIZE * GRID_SIZE

DEFAULT_COUPLING == 12000

DEFAULT_NOISE == 1000

DT == 500

LAMBDA_PLAST == 120

GAMMA_PLAST == 80

TARGET_AMP == 7071

\* 2 * Math.PI, in millidegrees.
TWO_PI == 360000

\* One radian in millidegrees is 180000/pi = 57295.78; RadToAngle(v) converts v, a
\* number of 1/SCALE radians, to millidegrees (57295.78 / 10^4 = 3581 / 625).
\* The product is formed in two parts, so that it stays within 32 bits for every v.
RadToAngle(v) == (v \div 625) * 3581 + ((v % 625) * 3581) \div 625

\* An angle in millidegrees as a number of 1/SCALE radians.
Radians(angle) == (angle * 625) \div 3581

(* ------------------------------------------------------------------------ *)
(* Arithmetic of JavaScript numbers, in fixed point                         *)
(* ------------------------------------------------------------------------ *)

Abs(a) == IF a < 0 THEN -a ELSE a

Min(a, b) == IF a < b THEN a ELSE b

Max(a, b) == IF a > b THEN a ELSE b

\* a * b for two fixed-point numbers: (a * b) / SCALE rounded down, computed in two parts
\* so that the intermediate products stay within 32 bits.
Mul(a, b) == (a \div SCALE) * b + ((a % SCALE) * b) \div SCALE

\* Number.MAX_VALUE: the largest finite fixed-point number of the model. A product of
\* greater magnitude is Infinity or -Infinity.
MAX_VALUE == 10 ^ 8

\* Infinity and NaN are numbers beyond every finite value the model forms in any unit;
\* -Infinity is the negative of Infinity.
Infinity == 2 ^ 30

NaN == 2 ^ 30 + 1

\* Number.isFinite(v)
IsFinite(v) == Abs(v) < Infinity

\* a + b: NaN for a NaN operand and for Infinity - Infinity, an infinite operand otherwise
\* wins, and a finite sum of the operands explored never overflows.
Plus(a, b) ==
  IF a = NaN \/ b = NaN \/ (Abs(a) = Infinity /\ b = -a) THEN NaN
  ELSE IF Abs(a) = Infinity THEN a
  ELSE IF Abs(b) = Infinity THEN b
  ELSE a + b

\* The JavaScript remainder a % m (m > 0): truncated, the sign of the dividend.
JsRem(a, m) == IF a >= 0 THEN a % m ELSE -((-a) % m)

\* Math.sqrt of a non-negative integer, rounded down (bisection on [lo, hi]).
RECURSIVE SqrtIn(_, _, _)
SqrtIn(n, lo, hi) ==
  IF lo >= hi THEN lo
  ELSE LET mid == (lo + hi + 1) \div 2
       IN IF mid * mid <= n THEN SqrtIn(n, mid, hi) ELSE SqrtIn(n, lo, mid - 1)

Sqrt(n) == SqrtIn(n, 0, 46340)

\* Math.sqrt(a*a + b*b) for fixed-point a, b.
Hypot(a, b) == Sqrt(a * a + b * b)

\* 10^4 * sin(d degrees), d = 0..90.
SinTab == <<0, 175, 349, 523, 698, 872, 1045, 1219, 1392, 1564, 1736, 1908, 2079, 2250, 2419, 2588, 2756, 2924, 3090, 3256, 3420, 3584, 3746, 3907, 4067, 4226, 4384, 4540, 4695, 4848, 5000, 5150, 5299, 5446, 5592, 5736, 5878, 6018, 6157, 6293, 6428, 6561, 6691, 6820, 6947, 7071, 7193, 7314, 7431, 7547, 7660, 7771, 7880, 7986, 8090, 8192, 8290, 8387, 8480, 8572, 8660, 8746, 8829, 8910, 8988, 9063, 9135, 9205, 9272, 9336, 9397, 9455, 9511, 9563, 9613, 9659, 9703, 9744, 9781, 9816, 9848, 9877, 9903, 9925, 9945, 9962, 9976, 9986, 9994, 9998, 10000>>

\* sin of an angle a in [0, 90000] millidegrees: table plus linear interpolation.
SinQ(a) ==
  LET d == a \div 1000
      f == a % 1000
  IN IF f = 0 THEN SinTab[d + 1]
     ELSE SinTab[d + 1] + ((SinTab[d + 2] - SinTab[d + 1]) * f) \div 1000

\* Math.sin of an angle in millidegrees (any sign, any magnitude).
Sin(a) ==
  LET m == a % TWO_PI
  IN IF m <= 90000 THEN SinQ(m)
     ELSE IF m <= 180000 THEN SinQ(180000 - m)
     ELSE IF m <= 270000 THEN -SinQ(m - 180000)
     ELSE -SinQ(TWO_PI - m)

\* Math.cos of an angle in millidegrees.
Cos(a) == Sin(a + 90000)

\* The largest whole degree d in lo..hi with tan(d) <= y / x (bisection), x, y >= 0.
RECURSIVE AtanDeg(_, _, _, _)
AtanDeg(y, x, lo, hi) ==
  IF lo >= hi THEN lo
  ELSE LET mid == (lo + hi + 1) \div 2
       IN IF SinTab[mid + 1] * x <= SinTab[91 - mid] * y
            THEN AtanDeg(y, x, mid, hi) ELSE AtanDeg(y, x, lo, mid - 1)

\* The whole degree d refined by linear interpolation between d and d + 1.
AtanFrac(y, x, d) ==
  IF d = 90 THEN 90000
  ELSE LET below == (SinTab[91 - d] * y - SinTab[d + 1] * x) \div 1000
           above == (SinTab[d + 2] * x - SinTab[90 - d] * y) \div 1000
       IN IF below + above <= 0 THEN d * 1000
          ELSE d * 1000 + Min(999, (1000 * below) \div (below + above))

\* The angle in [0, 90000] millidegrees of the point (x, y), x >= 0, y >= 0, not both 0.
AtanQ(y, x) == AtanFrac(y, x, AtanDeg(y, x, 0, 90))

\* Math.atan2(y, x) in millidegrees, in (-180000, 180000].
Atan2(y, x) ==
  IF x = 0 /\ y = 0 THEN 0
  ELSE IF x >= 0 /\ y >= 0 THEN AtanQ(y, x)
  ELSE IF x < 0 /\ y >= 0 THEN 180000 - AtanQ(y, -x)
  ELSE IF x < 0 /\ y < 0 THEN -(180000 - AtanQ(-y, -x))
  ELSE -AtanQ(-y, x)

\* 10^4 * ln(k), k = 1..49.
LnTab == <<0, 6931, 10986, 13863, 16094, 17918, 19459, 20794, 21972, 23026, 23979, 24849, 25649, 26391, 27081, 27726, 28332, 28904, 29444, 29957, 30445, 30910, 31355, 31781, 32189, 32581, 32958, 33322, 33673, 34012, 34340, 34657, 34965, 35264, 35553, 35835, 36109, 36376, 36636, 36889, 37136, 37377, 37612, 37842, 38067, 38286, 38501, 38712, 38918>>

\* The greatest common divisor of two positive integers.
RECURSIVE GCD(_, _)
GCD(a, b) == IF b = 0 THEN a ELSE GCD(b, a % b)

\* Math.log(c / n) for positive integers: from the table when both are in it, else from
\* the terms of the reduced fraction (which are in it for the fractions explored).
Log(c, n) ==
  IF c <= 49 /\ n <= 49 THEN LnTab[c] - LnTab[n]
  ELSE LnTab[c \div GCD(c, n)] - LnTab[n \div GCD(c, n)]

(* ------------------------------------------------------------------------ *)
(* State                                                                    *)
(* ------------------------------------------------------------------------ *)

VARIABLES
  heap,         \* the node records (objects) allocated so far: heap id -> GridNode
  gridRef,      \* gridRef.current: array of references to node records
  displayGrid,  \* the React state displayGrid: array of references to node records
  metricsRef,   \* metricsRef.current: sequence of SimulationMetrics
  metrics,      \* the React state metrics
  stepRef,      \* stepRef.current
  config,       \* the React state config
  isRunning,    \* the React state isRunning
  requestRef,   \* the pending animation frame: NoFrame or the closure it will call
  frames,       \* the number of callbacks in the browser's queue of animation frames
  emitted,      \* history: every sample a tick has appended, in order
  lastOp,       \* history: the operation that produced this state
  nInject,      \* history: number of injections so far
  call,         \* the promise of one call of interpretThoughtInjection and its position
  proj,         \* the projection pass of a tick over a uniform grid of the application's size
  app           \* the React state of App, its requests in flight and its effect closures

\* The state of the hook useSimulation.
engine == <<heap, gridRef, displayGrid, metricsRef, metrics, stepRef, config, isRunning, requestRef, frames, emitted, lastOp, nInject>>

vars == <<engine, call, proj, app>>

\* A function with its graph computed once (the same function as f).
Array(f) == f @@ <<>>

\* f[lo] + f[lo + 1] + ... + f[hi]
RECURSIVE SumTo(_, _, _)
SumTo(f, lo, hi) == IF lo > hi THEN 0 ELSE f[lo] + SumTo(f, lo + 1, hi)

(* ------------------------------------------------------------------------ *)
(* Arithmetic of JavaScript numbers, in binary64                            *)
(* ------------------------------------------------------------------------ *)
(* For the sums of the coherence, whose rounding errors are far below the   *)
(* resolution of the fixed point, a positive number is the pair of a 53-bit *)
(* significand m and an exponent e, of value m * 2^e, and zero has the      *)
(* empty significand. A natural number is the sequence of its digits to the *)
(* base LIMB = 2^15, the least significant first, without leading zeros.    *)
(* Every operation rounds its exact result to the nearest number, ties to   *)
(* even.                                                                    *)

LIMB == 2 ^ 15

\* The k-th digit of a (k = 1 for the least significant), 0 beyond its length.
LimbOf(a, k) == IF k \in DOMAIN a THEN a[k] ELSE 0

\* a without leading zeros.
RECURSIVE Trim(_)
Trim(a) == IF a = <<>> \/ a[Len(a)] # 0 THEN a ELSE Trim(SubSeq(a, 1, Len(a) - 1))

\* The digits k, k+1, ..., n of a + b + carry.
RECURSIVE AddFrom(_, _, _, _, _)
AddFrom(a, b, k, carry, n) ==
  IF k > n THEN <<>>
  ELSE <<(LimbOf(a, k) + LimbOf(b, k) + carry) % LIMB>>
       \o AddFrom(a, b, k + 1, (LimbOf(a, k) + LimbOf(b, k) + carry) \div LIMB, n)

NatAdd(a, b) == Trim(AddFrom(a, b, 1, 0, Max(Len(a), Len(b)) + 1))

\* The digits from the k-th on of a * c + carry * LIMB^(k-1), for an integer c < LIMB.
RECURSIVE MulFrom(_, _, _, _)
MulFrom(a, c, k, carry) ==
  IF k > Len(a) THEN <<carry>>
  ELSE <<(a[k] * c + carry) % LIMB>> \o MulFrom(a, c, k + 1, (a[k] * c + carry) \div LIMB)

MulSmall(a, c) == Trim(MulFrom(a, c, 1, 0))

\* a * b, by b = b[1] + LIMB * Tail(b).
RECURSIVE NatMul(_, _)
NatMul(a, b) ==
  IF a = <<>> \/ b = <<>> THEN <<>>
  ELSE NatAdd(MulSmall(a, Head(b)), Trim(<<0>> \o NatMul(a, Tail(b))))

\* a <= b
NatLeq(a, b) ==
  \/ Len(a) < Len(b)
  \/ /\ Len(a) = Len(b)
     /\ \A k \in DOMAIN a : a[k] > b[k] => \E j \in k + 1 .. Len(a) : a[j] < b[j]

\* The quotient of one more digit: digit is the quotient digit above those of rest.
DivStep(rest, digit) == [q |-> rest.q \o <<digit>>, r |-> rest.r]

\* Quotient and remainder of (rem * LIMB^k + the k low digits of a) by the integer
\* d < LIMB, where rem < d.
RECURSIVE DivFrom(_, _, _, _)
DivFrom(a, d, k, rem) ==
  IF k = 0 THEN [q |-> <<>>, r |-> rem]
  ELSE DivStep(DivFrom(a, d, k - 1, (rem * LIMB + a[k]) % d), (rem * LIMB + a[k]) \div d)

\* Quotient (without leading zeros) and remainder of a by the integer d < LIMB.
DivSmall(a, d) == [q |-> Trim(DivFrom(a, d, Len(a), 0).q), r |-> DivFrom(a, d, Len(a), 0).r]

\* The number of bits of a.
BitLen(a) ==
  IF a = <<>> THEN 0
  ELSE 15 * (Len(a) - 1) + CHOOSE w \in 1..15 : 2 ^ (w - 1) <= a[Len(a)] /\ a[Len(a)] < 2 ^ w

\* a * 2^k
ShiftLeft(a, k) ==
  IF a = <<>> THEN a ELSE [j \in 1..(k \div 15) |-> 0] \o MulSmall(a, 2 ^ (k % 15))

\* a \div 2^k (q), and whether a bit of a was lost (r # 0).
ShiftRight(a, k) ==
  IF Len(a) <= k \div 15 THEN [q |-> <<>>, r |-> IF a = <<>> THEN 0 ELSE 1]
  ELSE [q |-> DivSmall(SubSeq(a, k \div 15 + 1, Len(a)), 2 ^ (k % 15)).q,
        r |-> IF \E j \in 1..(k \div 15) : a[j] # 0 THEN 1
              ELSE DivSmall(SubSeq(a, k \div 15 + 1, Len(a)), 2 ^ (k % 15)).r]

\* The natural number of the 14 hexadecimal digits h (most significant first): bit b of
\* it (0 for the least significant) is bit b % 4 of the digit h[14 - b \div 4].
FromHex(h) ==
  Trim([j \in 1..4 |->
          SumTo([t \in 0..14 |->
                   IF (15 * (j - 1) + t) \div 4 < 14
                     THEN ((h[14 - (15 * (j - 1) + t) \div 4] \div 2 ^ ((15 * (j - 1) + t) % 4)) % 2) * 2 ^ t
                     ELSE 0], 0, 14)])

\* The number m * 2^e.
Double(m, e) == [m |-> m, e |-> e]

\* The number of the 54 bits y = 2 * (significand) + (guard bit) and the exponent e of the
\* significand: up when the guard bit is set and a lower bit is (sticky) or the
\* significand is odd.
RoundGuard(y, e, sticky) ==
  IF y[1] % 2 = 1 /\ (sticky \/ (y[1] \div 2) % 2 = 1)
    THEN IF BitLen(NatAdd(ShiftRight(y, 1).q, <<1>>)) = 54
           THEN Double(ShiftRight(NatAdd(ShiftRight(y, 1).q, <<1>>), 1).q, e + 1)
           ELSE Double(NatAdd(ShiftRight(y, 1).q, <<1>>), e)
    ELSE Double(ShiftRight(y, 1).q, e)

\* The nearest number to x * 2^e + (a fraction of 2^e in [0, 1), positive iff sticky),
\* ties to even; x has at least 55 bits when sticky.
Round(x, e, sticky) ==
  IF x = <<>> THEN Double(<<>>, 0)
  ELSE IF BitLen(x) <= 53 THEN Double(ShiftLeft(x, 53 - BitLen(x)), e - (53 - BitLen(x)))
  ELSE RoundGuard(ShiftRight(x, BitLen(x) - 54).q, e + BitLen(x) - 53,
                  sticky \/ ShiftRight(x, BitLen(x) - 54).r # 0)

\* x + y
FAdd(x, y) ==
  IF x.m = <<>> THEN y
  ELSE IF y.m = <<>> THEN x
  ELSE Round(NatAdd(ShiftLeft(x.m, x.e - Min(x.e, y.e)), ShiftLeft(y.m, y.e - Min(x.e, y.e))),
             Min(x.e, y.e), FALSE)

\* x * y
FMul(x, y) == Round(NatMul(x.m, y.m), x.e + y.e, FALSE)

\* x / n for an integer 0 < n < 2^13: the quotient of x.m * 2^16 by n has at least 56
\* bits, and its remainder is the sticky bit.
FDiv(x, n) ==
  Round(DivSmall(ShiftLeft(x.m, 16), n).q, x.e - 16, DivSmall(ShiftLeft(x.m, 16), n).r # 0)

\* The greatest r + (a number below 2^k) whose square is at most x, the bits of r below
\* the stop-th being left for later.
RECURSIVE RootFrom(_, _, _, _)
RootFrom(x, r, k, stop) ==
  IF k = stop THEN r
  ELSE IF NatLeq(NatMul(NatAdd(r, ShiftLeft(<<1>>, k - 1)), NatAdd(r, ShiftLeft(<<1>>, k - 1))), x)
    THEN RootFrom(x, NatAdd(r, ShiftLeft(<<1>>, k - 1)), k - 1, stop)
    ELSE RootFrom(x, r, k - 1, stop)

\* The integer square root of x < 2^110, eleven bits at a time.
Root(x) ==
  RootFrom(x, RootFrom(x, RootFrom(x, RootFrom(x, RootFrom(x, <<>>, 55, 44), 44, 33), 33, 22), 22, 11), 11, 0)

\* Math.sqrt(x): the integer root (of 55 bits) of x.m * 2^s, where s = 56 or 57 leaves an
\* even exponent; the sticky bit is set unless the root is exact.
FSqrt(x) ==
  IF x.m = <<>> THEN x
  ELSE Round(Root(ShiftLeft(x.m, 56 + (x.e % 2))), (x.e - 56 - (x.e % 2)) \div 2,
             NatMul(Root(ShiftLeft(x.m, 56 + (x.e % 2))), Root(ShiftLeft(x.m, 56 + (x.e % 2))))
               # ShiftLeft(x.m, 56 + (x.e % 2)))

\* x <= y
FLeq(x, y) ==
  \/ x.m = <<>>
  \/ y.m # <<>> /\ (x.e < y.e \/ (x.e = y.e /\ NatLeq(x.m, y.m)))

\* Indices of the lattice, row-major (index = y * GRID_SIZE + x).
Cells == 0..(TOTAL_NODES - 1)

\* Every cell owns three heap ids: enough for the record referenced by gridRef.current,
\* the record referenced by displayGrid and one record being created.
HeapIds == 0..(3 * TOTAL_NODES - 1)

HeapId(idx, slot) == slot * TOTAL_NODES + idx

\* The cell whose record a heap id holds.
CellOf(id) == id % TOTAL_NODES

\* A reference to a newly allocated record for cell idx: an id that no array of the
\* state refers to.
NewObject(grid, display, idx) ==
  HeapId(idx, CHOOSE s \in 0..2 :
                /\ HeapId(idx, s) \notin {grid[idx], display[idx]}
                /\ \A t \in 0..(s - 1) : HeapId(idx, t) \in {grid[idx], display[idx]})

\* identity / dataSignature of a node that has none.
NoTag == -1

\* requestRef when no animation frame is pending.
NoFrame == [pending |-> FALSE]

\* The k-th outcome of Math.random() under the given seed, a fixed-point number in [0, 1).
Random(seed, k) == ((seed + 1) * 4099 + k * 2421 + ((k * k) % 97) * 577) % SCALE

Seeds == 0..(MaxSeed - 1)

(* ------------------------------------------------------------------------ *)
(* initGrid                                                                 *)
(* ------------------------------------------------------------------------ *)

\* The node pushed by iteration i of initGrid, its Math.random() calls taken from seed.
InitNode(seed, i) ==
  LET theta   == Random(seed, 8 * i) * (TWO_PI \div SCALE)
      isTitan == Random(seed, 8 * i + 1) < 100
      isSpark == (~isTitan) /\ Random(seed, 8 * i + 2) < 500
      omega0  == SCALE + (Random(seed, 8 * i + 3) - 5000) \div 2
      omega1  == IF isSpark THEN 3 * SCALE + (Random(seed, 8 * i + 4) - 5000) * 2 ELSE omega0
      omega   == IF isTitan THEN 0 ELSE omega1
      r       == TARGET_AMP + (Random(seed, 8 * i + 5) - 5000) \div 10
      alpha   == 1000 + Random(seed, 8 * i + 6) \div 10
  IN [theta |-> theta, omega |-> omega, r |-> r, alpha |-> alpha,
      isTitan |-> isTitan, isSpark |-> isSpark, identity |-> NoTag, dataSignature |-> NoTag]

\* A construction loop that stops one node short of TOTAL_NODES.
initGridShort(seed) == Array([i \in 0..(TOTAL_NODES - 2) |-> InitNode(seed, i)])

\* for (let i = 0; i < TOTAL_NODES; i++) grid.push({ theta, omega, r, alpha, isTitan, isSpark })
initGrid(seed) == Array([i \in Cells |-> InitNode(seed, i)])

(* ------------------------------------------------------------------------ *)
(* getNeighbors                                                             *)
(* ------------------------------------------------------------------------ *)

\* Neighbours by index arithmetic on the flattened array: the edges run on into the
\* adjacent row and the first and last rows into each other.
getNeighborsFlat(idx) ==
  <<(idx - 1 + TOTAL_NODES) % TOTAL_NODES, (idx + 1) % TOTAL_NODES,
    (idx - GRID_SIZE + TOTAL_NODES) % TOTAL_NODES, (idx + GRID_SIZE) % TOTAL_NODES>>

getNeighbors(idx) ==
  LET x     == idx % GRID_SIZE
      y     == idx \div GRID_SIZE
      left  == y * GRID_SIZE + ((x - 1 + GRID_SIZE) % GRID_SIZE)
      right == y * GRID_SIZE + ((x + 1) % GRID_SIZE)
      up    == ((y - 1 + GRID_SIZE) % GRID_SIZE) * GRID_SIZE + x
      down  == ((y + 1) % GRID_SIZE) * GRID_SIZE + x
  IN <<left, right, up, down>>

(* ------------------------------------------------------------------------ *)
(* updatePhysics                                                            *)
(* ------------------------------------------------------------------------ *)

\* The node records an array of references points to.
Deref(h, grid) == Array([i \in DOMAIN grid |-> h[grid[i]]])

\* The array the loop body of a tick reads node state from (currentGrid), given
\* currentGrid and the part of nextGrid written so far.
ReadGridInPlace(currentGrid, nextGrid) ==
  Array([i \in DOMAIN currentGrid |-> IF i \in DOMAIN nextGrid THEN nextGrid[i] ELSE currentGrid[i]])

ReadGrid(currentGrid, nextGrid) == currentGrid

\* The clamps of r and alpha ("Constraints to prevent explosion").
ClampRNone(nextR) == nextR

ClampR(nextR) == Min(Max(nextR, 1000), 20000)

ClampAlphaNone(nextAlpha) == nextAlpha

ClampAlpha(nextAlpha) == Min(Max(nextAlpha, -SCALE), 2 * SCALE)

\* The record stored in nextGrid[i] for a Titan.
TitanUpdate(node, dt) ==
  [node EXCEPT !.theta = node.theta + RadToAngle(Mul(node.omega, dt) \div 10)]

\* Math.atan2(nextY, nextX), brought into [0, 2*pi).
PolarAngle(atan) == IF atan < 0 THEN atan + TWO_PI ELSE atan

\* The record stored in nextGrid[i] for a coupled node, from its Cartesian position after
\* the Euler step and its plastic frequency and gain.
ToPolar(node, nextX, nextY, nextOmega, nextAlpha) ==
  [node EXCEPT !.r = ClampR(Hypot(nextX, nextY)),
               !.theta = PolarAngle(Atan2(nextY, nextX)),
               !.omega = nextOmega,
               !.alpha = ClampAlpha(nextAlpha)]

\* The Euler step and the dual plasticity of a coupled node.
Integrate(node, x_i, y_i, diffX, diffY, phasePull, noiseX, noiseY, cfg) ==
  LET r2     == Mul(node.r, node.r)
      dX     == Mul(node.alpha - r2, x_i) - Mul(node.omega, y_i) + Mul(cfg.coupling, diffX) + noiseX
      dY     == Mul(node.alpha - r2, y_i) + Mul(node.omega, x_i) + Mul(cfg.coupling, diffY) + noiseY
      dOmega == Mul(Mul(LAMBDA_PLAST, cfg.coupling), phasePull)
      dAlpha == Mul(Mul(GAMMA_PLAST, TARGET_AMP - node.r), node.r)
  IN ToPolar(node, x_i + Mul(dX, cfg.dt), y_i + Mul(dY, cfg.dt),
             node.omega + Mul(dOmega, cfg.dt), node.alpha + Mul(dAlpha, cfg.dt))

\* A noise term whose amplitude never falls below DEFAULT_NOISE.
NoiseFloor(seed, k, noise) == Mul((Random(seed, k) - 5000) * 2, Max(noise, DEFAULT_NOISE))

\* (Math.random() - 0.5) * 2 * noise, for the k-th outcome of Math.random().
Noise(seed, k, noise) == Mul((Random(seed, k) - 5000) * 2, noise)

\* The sums over the 4 neighbours nb of node i, then the step.
Couple(grid, X, Y, cfg, seed, i, nb) ==
  Integrate(grid[i], X[i], Y[i],
            (X[nb[1]] - X[i]) + (X[nb[2]] - X[i]) + (X[nb[3]] - X[i]) + (X[nb[4]] - X[i]),
            (Y[nb[1]] - Y[i]) + (Y[nb[2]] - Y[i]) + (Y[nb[3]] - Y[i]) + (Y[nb[4]] - Y[i]),
            Sin(grid[nb[1]].theta - grid[i].theta) + Sin(grid[nb[2]].theta - grid[i].theta)
              + Sin(grid[nb[3]].theta - grid[i].theta) + Sin(grid[nb[4]].theta - grid[i].theta),
            Noise(seed, 2 * i, cfg.noise),
            Noise(seed, 2 * i + 1, cfg.noise),
            cfg)

\* The record stored in nextGrid[i] for a coupled node, read from grid (node records), the
\* projections X, Y, the config cfg and the Math.random() outcomes of seed.
CoupledUpdate(grid, X, Y, cfg, seed, i) == Couple(grid, X, Y, cfg, seed, i, getNeighbors(i))

\* The record stored in nextGrid[i].
NodeUpdate(grid, X, Y, cfg, seed, i) ==
  IF grid[i].isTitan THEN TitanUpdate(grid[i], cfg.dt)
  ELSE CoupledUpdate(grid, X, Y, cfg, seed, i)

\* One iteration of the main loop: nextGrid with index i written.
LoopBody(currentGrid, X, Y, cfg, seed, nextGrid, i) ==
  (i :> NodeUpdate(ReadGrid(currentGrid, nextGrid), X, Y, cfg, seed, i)) @@ nextGrid

\* The main loop over the indices order[k], order[k+1], ..., starting from nextGrid.
\* order lists every index once; the test of nextGrid has each iteration's array
\* computed before the next iteration begins.
RECURSIVE PhysicsLoop(_, _, _, _, _, _, _, _)
PhysicsLoop(currentGrid, X, Y, cfg, seed, order, k, nextGrid) ==
  IF k > Len(order) \/ order[k] \in DOMAIN nextGrid THEN nextGrid
  ELSE PhysicsLoop(currentGrid, X, Y, cfg, seed, order, k + 1,
                   LoopBody(currentGrid, X, Y, cfg, seed, nextGrid, order[k]))

\* for (let i = 0; i < TOTAL_NODES; i++)
LoopOrder == [k \in 1..TOTAL_NODES |-> k - 1]

\* The projections X[i] = r * cos(theta), Y[i] = r * sin(theta) of currentGrid.
ProjectX(currentGrid) == Array([i \in Cells |-> Mul(currentGrid[i].r, Cos(currentGrid[i].theta))])

ProjectY(currentGrid) == Array([i \in Cells |-> Mul(currentGrid[i].r, Sin(currentGrid[i].theta))])

\* nextGrid (as node records) after the main loop run in the given order of indices.
NextGridIn(currentGrid, cfg, seed, order) ==
  PhysicsLoop(currentGrid, ProjectX(currentGrid), ProjectY(currentGrid), cfg, seed, order, 1, <<>>)

\* nextGrid (as node records) after the main loop, from the node records currentGrid.
NextGrid(currentGrid, cfg, seed) == NextGridIn(currentGrid, cfg, seed, LoopOrder)

\* sinSum and cosSum accumulated by the projection pass over currentGrid.
SinSum(currentGrid) == SumTo([i \in Cells |-> Sin(currentGrid[i].theta)], 0, TOTAL_NODES - 1)

CosSum(currentGrid) == SumTo([i \in Cells |-> Cos(currentGrid[i].theta)], 0, TOTAL_NODES - 1)

\* The sum of the magnitudes of the two means instead of the length of their vector.
CoherenceL1(sinSum, cosSum) == (Abs(sinSum) + Abs(cosSum)) \div TOTAL_NODES

\* R = sqrt((sinSum / N)^2 + (cosSum / N)^2)
Coherence(sinSum, cosSum) == Hypot(sinSum \div TOTAL_NODES, cosSum \div TOTAL_NODES)

\* Math.floor((theta / (2 * Math.PI)) * 36)
BinIdx(theta) == (theta * 36) \div TWO_PI

\* bins[b] after the counting loop over grid: a negative index is no element of bins.
BinCount(grid, b) == Cardinality({i \in Cells : Min(BinIdx(grid[i].theta), 35) = b})

\* The term a bin of the given count adds to entropy: -p * Math.log(p) when p > 0.
EntropyTerm(count, n) ==
  IF count > 0 THEN -Mul((count * SCALE) \div n, Log(count, n)) ELSE 0

\* The sum of the bins' terms without the division by maxEntropy.
EntropyRaw(bins, n) == SumTo([b \in 0..35 |-> EntropyTerm(bins[b], n)], 0, 35)

\* entropy / maxEntropy, from the bins of a grid of n nodes.
Entropy(bins, n) ==
  (SumTo([b \in 0..35 |-> EntropyTerm(bins[b], n)], 0, 35) * SCALE) \div LnTab[36]

\* entropy / maxEntropy of the phases of grid.
NormEntropy(grid) == Entropy([b \in 0..35 |-> BinCount(grid, b)], TOTAL_NODES)

\* The grid the entropy loop reads (gridRef.current, after line 151 has replaced it).
EntropyGridPrevious(currentGrid, nextGrid) == currentGrid

EntropyGrid(currentGrid, nextGrid) == nextGrid

\* Number of old samples kept when one is appended: metricsRef.current.slice(-100).
HISTORY_KEEP == 100

\* s.slice(-n)
SliceAll(s, n) == s

SliceLast(s, n) == IF Len(s) <= n THEN s ELSE SubSeq(s, Len(s) - n + 1, Len(s))

\* The sample appended by the tick that takes currentGrid to nextGrid and the step
\* counter to step.
NewMetric(currentGrid, nextGrid, step) ==
  [coherence |-> Coherence(SinSum(currentGrid), CosSum(currentGrid)),
   entropy   |-> NormEntropy(EntropyGrid(currentGrid, nextGrid)),
   step      |-> step]

\* The step counter after a tick.
StepKeep(step) == step

StepNext(step) == step + 1

\* The new array of references: one new record for every written index of nextGrid.
NewRefs(nextGrid) == Array([i \in DOMAIN nextGrid |-> NewObject(gridRef, displayGrid, i)])

\* The end of updatePhysics: nextGrid, whose records are at refs, replaces
\* gridRef.current; the step counter advances; the sample is appended.
CommitTick(nextGrid, refs, newMetric) ==
  /\ heap' = [id \in HeapIds |->
                IF CellOf(id) \in DOMAIN refs /\ refs[CellOf(id)] = id
                THEN nextGrid[CellOf(id)] ELSE heap[id]]
  /\ gridRef' = refs
  /\ stepRef' = StepNext(stepRef)
  /\ metricsRef' = Append(SliceLast(metricsRef, HISTORY_KEEP), newMetric)
  /\ emitted' = Append(emitted, newMetric)

\* The body of updatePhysics once currentGrid and nextGrid are known.
FinishTick(currentGrid, nextGrid) ==
  CommitTick(nextGrid, NewRefs(nextGrid), NewMetric(currentGrid, nextGrid, StepNext(stepRef)))

\* The body of updatePhysics once currentGrid is known.
StepFrom(currentGrid, cfg, seed) == FinishTick(currentGrid, NextGrid(currentGrid, cfg, seed))

\* updatePhysics under the config cfg of the closure that calls it.
updatePhysics(cfg, seed) == StepFrom(Deref(heap, gridRef), cfg, seed)

(* ------------------------------------------------------------------------ *)
(* animate, the isRunning effect, toggleRun, setConfig                      *)
(* ------------------------------------------------------------------------ *)

\* A frame whose closure still holds the config of the first render.
FrameFirstRender(running, cfg) ==
  [pending |-> TRUE, isRunning |-> running,
   config |-> [coupling |-> DEFAULT_COUPLING, noise |-> DEFAULT_NOISE, dt |-> DT, gridSize |-> GRID_SIZE]]

\* requestAnimationFrame(animate): the pending frame holds the closure animate of the
\* current render, which has captured that render's isRunning and config.
Frame(running, cfg) == [pending |-> TRUE, isRunning |-> running, config |-> cfg]

\* The queue of animation frames when nothing is cancelled.
CancelledNone == frames

\* if (requestRef.current) cancelAnimationFrame(requestRef.current): the callback that
\* requestRef.current names leaves the queue, if it is still in it.
Cancelled == IF requestRef.pending THEN frames - 1 ELSE frames

\* The effect of useEffect(..., [isRunning, animate]) after a render with the given state:
\* the cleanup cancels the pending frame, then a frame is requested when running.
RunEffect(running, cfg) == IF running THEN Frame(running, cfg) ELSE NoFrame

\* The value of lastOp after an operation that takes no injection command.
NoParams == [targetX |-> 0, targetY |-> 0, radius |-> 0, intensity |-> 0, pattern |-> "none"]

Op(name) == [op |-> name, params |-> NoParams, seed |-> 0]

\* The animation frame fires: animate().
animate(seed) ==
  /\ requestRef.pending
  /\ updatePhysics(requestRef.config, seed)
  /\ IF stepRef' % 2 = 0
       THEN /\ displayGrid' = gridRef'
            /\ metrics' = metricsRef'
       ELSE UNCHANGED <<displayGrid, metrics>>
  /\ requestRef' = IF requestRef.isRunning
                     THEN Frame(requestRef.isRunning, requestRef.config)
                     ELSE NoFrame
  /\ frames' = (frames - 1) + (IF requestRef.isRunning THEN 1 ELSE 0)
  /\ lastOp' = [Op("animate") EXCEPT !.seed = seed]
  /\ UNCHANGED <<config, isRunning, nInject>>

toggleRun ==
  /\ isRunning' = ~isRunning
  /\ requestRef' = RunEffect(isRunning', config)
  /\ frames' = Cancelled + (IF isRunning' THEN 1 ELSE 0)
  /\ lastOp' = Op("toggleRun")
  /\ UNCHANGED <<heap, gridRef, displayGrid, metricsRef, metrics, stepRef, config, emitted, nInject>>

setConfig(cfg) ==
  /\ cfg # config
  /\ config' = cfg
  /\ requestRef' = RunEffect(isRunning, cfg)
  /\ frames' = Cancelled + (IF isRunning THEN 1 ELSE 0)
  /\ lastOp' = Op("setConfig")
  /\ UNCHANGED <<heap, gridRef, displayGrid, metricsRef, metrics, stepRef, isRunning, emitted, nInject>>

(* ------------------------------------------------------------------------ *)
(* injectPattern, activateElysiumGateway                                    *)
(* ------------------------------------------------------------------------ *)

\* 137.508 * (Math.PI / 180), in millidegrees.
GOLDEN_ANGLE == 137508

\* angle * k for an angle in millidegrees and a fixed-point factor k, when it is finite.
MulAngle(angle, k) == Mul(k, angle)

\* angle * k: the product in radians overflows beyond MAX_VALUE.
Times(angle, k) ==
  IF Mul(Abs(k), Radians(Abs(angle))) > MAX_VALUE
    THEN (IF (angle < 0) = (k < 0) THEN Infinity ELSE -Infinity)
    ELSE MulAngle(angle, k)

\* Math.sqrt(dx*dx + dy*dy) for integers dx, dy, as a fixed-point number.
Dist(dx, dy) == Sqrt((dx * dx + dy * dy) * 10 ^ 6) * 10

\* The cell at (x, y) of a lattice whose edges wrap around.
CellAtWrap(x, y) == (y % GRID_SIZE) * GRID_SIZE + (x % GRID_SIZE)

\* The cell at (x, y), or -1 when (x, y) lies outside the grid.
CellAt(x, y) ==
  IF x >= 0 /\ x < GRID_SIZE /\ y >= 0 /\ y < GRID_SIZE THEN y * GRID_SIZE + x ELSE -1

\* The cell of the spiral point at radius r_pos (in 1/1000 cells) and angle theta_pos.
SpiralAt(centerX, centerY, r_pos, theta_pos) ==
  CellAt((centerX * 1000 + (r_pos * Cos(theta_pos)) \div SCALE) \div 1000,
         (centerY * 1000 + (r_pos * Sin(theta_pos)) \div SCALE) \div 1000)

\* The cell of the i-th point of the phyllotaxis spiral around (centerX, centerY), or -1
\* when the point lies outside the grid: r_pos = 3.5 * sqrt(i + 1), theta_pos = i * g.
SpiralCell(centerX, centerY, i) ==
  SpiralAt(centerX, centerY, (35 * Sqrt((i + 1) * 10 ^ 6)) \div 10, i * GOLDEN_ANGLE)

\* A placement that makes the node a Titan and a Spark.
ElysiumNodeSpark(node, i, tagged) ==
  [node EXCEPT !.isTitan = TRUE, !.isSpark = TRUE, !.omega = 0,
               !.theta = JsRem(i * GOLDEN_ANGLE, TWO_PI), !.r = SCALE, !.alpha = SCALE,
               !.identity = IF tagged THEN i ELSE @,
               !.dataSignature = IF tagged THEN 65 + (i % 26) ELSE @]

\* The record that replaces node at the i-th spiral point; tagged is TRUE for
\* activateElysiumGateway, which also sets identity and dataSignature.
ElysiumNode(node, i, tagged) ==
  [node EXCEPT !.isTitan = TRUE, !.isSpark = FALSE, !.omega = 0,
               !.theta = JsRem(i * GOLDEN_ANGLE, TWO_PI), !.r = SCALE, !.alpha = SCALE,
               !.identity = IF tagged THEN i ELSE @,
               !.dataSignature = IF tagged THEN 65 + (i % 26) ELSE @]

\* The assignment currentGrid[idx] = {...} of iteration i: acc holds the node records of
\* currentGrid and the set of indices written so far.
ElysiumStep(acc, idx, i, tagged) ==
  [grid |-> [acc.grid EXCEPT ![idx] = ElysiumNode(acc.grid[idx], i, tagged)],
   written |-> acc.written \cup {idx}]

\* for (let i = 0; i < 50; i++) if (x >= 0 && x < GRID_SIZE && y >= 0 && y < GRID_SIZE) ...
RECURSIVE ElysiumLoop(_, _, _, _, _)
ElysiumLoop(acc, centerX, centerY, tagged, i) ==
  IF i >= 50 THEN acc
  ELSE IF SpiralCell(centerX, centerY, i) \in DOMAIN acc.grid
    THEN ElysiumLoop(ElysiumStep(acc, SpiralCell(centerX, centerY, i), i, tagged),
                     centerX, centerY, tagged, i + 1)
    ELSE ElysiumLoop(acc, centerX, centerY, tagged, i + 1)

\* The array currentGrid after the loop: a new record for every written index.
ElysiumRefs(written) ==
  Array([idx \in DOMAIN gridRef |->
           IF idx \in written THEN NewObject(gridRef, displayGrid, idx) ELSE gridRef[idx]])

\* gridRef.current = currentGrid; setDisplayGrid([...gridRef.current]).
CommitElysium(acc, refs) ==
  /\ heap' = [id \in HeapIds |->
                IF CellOf(id) \in acc.written /\ refs[CellOf(id)] = id
                THEN acc.grid[CellOf(id)] ELSE heap[id]]
  /\ gridRef' = refs
  /\ displayGrid' = refs

\* The elysium branch once the loop has run.
FinishElysium(acc) == CommitElysium(acc, ElysiumRefs(acc.written))

\* The elysium branch of injectPattern and the body of activateElysiumGateway.
PlaceElysium(centerX, centerY, tagged) ==
  FinishElysium(ElysiumLoop([grid |-> Deref(heap, gridRef), written |-> {}],
                            centerX, centerY, tagged, 0))

\* A unity branch that leaves alpha alone.
UnityKeepAlpha(node) ==
  [node EXCEPT !.theta = 30000, !.r = SCALE,
               !.omega = IF node.isSpark \/ ~node.isTitan THEN SCALE ELSE @]

\* The fields the unity branch writes to the record node.
UnityAll(node) == [node EXCEPT !.theta = 30000, !.r = SCALE, !.alpha = SCALE, !.omega = SCALE]

Unity(node) ==
  [node EXCEPT !.theta = 30000, !.r = SCALE, !.alpha = SCALE,
               !.omega = IF node.isSpark \/ ~node.isTitan THEN SCALE ELSE @]

\* The fields the stabilize branch writes to the record node.
StabilizePhase(node) == [node EXCEPT !.theta = 0]

Stabilize(node) == [node EXCEPT !.theta = 0, !.r = TARGET_AMP]

\* phaseShift for the cell idx at offset (dx, dy) from the centre, in millidegrees.
PhaseShift(pattern, intensity, seed, idx, dx, dy) ==
  IF pattern = "pulse" THEN RadToAngle(Mul(intensity, Sin(RadToAngle(Dist(dx, dy)))))
  ELSE IF pattern = "spiral" THEN Times(Atan2(dy, dx), intensity)
  ELSE IF pattern = "chaos" THEN Times(Random(seed, idx) * (TWO_PI \div SCALE), intensity)
  ELSE 0

\* (node.theta + phaseShift) % (2 * Math.PI): the remainder of Infinity or NaN is NaN.
Wrap(theta) == IF IsFinite(theta) THEN JsRem(theta, TWO_PI) ELSE NaN

\* The record node after the body of `if (dist <= radius)`.
Mutate(node, params, seed, idx, dx, dy) ==
  IF params.pattern = "unity" THEN Unity(node)
  ELSE IF params.pattern = "stabilize" THEN Stabilize(node)
  ELSE [node EXCEPT !.theta =
          Wrap(Plus(node.theta, PhaseShift(params.pattern, params.intensity, seed, idx, dx, dy)))]

\* The distance taken the short way around the edges of the lattice.
InRadiusTorus(idx, centerX, centerY, radius) ==
  Dist(Min(Abs((idx % GRID_SIZE) - centerX), GRID_SIZE - Abs((idx % GRID_SIZE) - centerX)),
       Min(Abs((idx \div GRID_SIZE) - centerY), GRID_SIZE - Abs((idx \div GRID_SIZE) - centerY)))
    <= radius

\* dist <= radius for the cell idx and the centre (centerX, centerY).
InRadius(idx, centerX, centerY, radius) ==
  Dist((idx % GRID_SIZE) - centerX, (idx \div GRID_SIZE) - centerY) <= radius

\* The radius scan: the records currentGrid refers to are written in place; then
\* gridRef.current = currentGrid; setDisplayGrid([...gridRef.current]).
ScanRadius(params, centerX, centerY, seed) ==
  /\ heap' = [id \in HeapIds |->
                IF gridRef[CellOf(id)] = id /\ InRadius(CellOf(id), centerX, centerY, params.radius)
                THEN Mutate(heap[id], params, seed, CellOf(id),
                            (CellOf(id) % GRID_SIZE) - centerX,
                            (CellOf(id) \div GRID_SIZE) - centerY)
                ELSE heap[id]]
  /\ gridRef' = gridRef
  /\ displayGrid' = gridRef

\* A target coordinate taken as it is.
ClampNone(t) == t

\* The clamp of a target coordinate into the grid.
ClampCoord(t) == Min(Max(t, 0), GRID_SIZE - 1)

injectPattern(params, seed) ==
  /\ IF params.pattern = "elysium"
       THEN PlaceElysium(ClampCoord(params.targetX), ClampCoord(params.targetY), FALSE)
       ELSE ScanRadius(params, ClampCoord(params.targetX), ClampCoord(params.targetY), seed)
  /\ lastOp' = [op |-> "injectPattern", params |-> params, seed |-> seed]
  /\ nInject' = nInject + 1
  /\ UNCHANGED <<metricsRef, metrics, stepRef, config, isRunning, requestRef, frames, emitted>>

activateElysiumGateway ==
  /\ PlaceElysium(GRID_SIZE \div 2, GRID_SIZE \div 2, TRUE)
  /\ lastOp' = Op("activateElysiumGateway")
  /\ nInject' = nInject + 1
  /\ UNCHANGED <<metricsRef, metrics, stepRef, config, isRunning, requestRef, frames, emitted>>

(* ------------------------------------------------------------------------ *)
(* interpretThoughtInjection (src/services/geminiService.ts)                *)
(* ------------------------------------------------------------------------ *)
(* A string is modelled by the sequence of the phrases it consists of, so   *)
(* that s.includes(w) is "w is one of the phrases of s"; an error by its    *)
(* status and the phrases of its message (status 0: no status property).    *)

FALLBACK_EVOLUTION_THOUGHT == "SUSTAINING RESONANCE FIELD"

\* s.toLowerCase() of a phrase.
LowerCase(w) ==
  CASE w = "ELYSIUM" -> "elysium"
    [] w = "Gateway" -> "gateway"
    [] w = "Quota" -> "quota"
    [] w = "RESOURCE_EXHAUSTED" -> "resource_exhausted"
    [] OTHER -> w

\* s.includes(w)
Includes(s, w) == \E k \in DOMAIN s : s[k] = w

\* s.toLowerCase().includes(w)
LowerIncludes(s, w) == \E k \in DOMAIN s : LowerCase(s[k]) = w

Error(status, message) == [status |-> status, message |-> message]

isQuotaError(error) ==
  \/ error.status \in {429, 503, 500}
  \/ \E w \in {"429", "quota", "resource_exhausted", "overloaded", "too many requests"} :
       LowerIncludes(error.message, w)

getFallbackParams(message) ==
  [targetX |-> GRID_SIZE \div 2, targetY |-> GRID_SIZE \div 2, radius |-> 10 * SCALE,
   intensity |-> 5000, pattern |-> "pulse", message |-> message]

\* No call of interpretThoughtInjection has been made: no model call has an outcome,
\* retryWithBackoff has thrown nothing and the promise has no value.
NoCall ==
  [pc |-> "idle", thought |-> <<>>, retries |-> 0, baseDelay |-> 0, attempts |-> 0,
   outcome |-> [kind |-> "none"], thrown |-> [kind |-> "none"], value |-> [pattern |-> "none"]]

\* The async function returns v: its promise resolves to v.
Return(c, v) == [c EXCEPT !.pc = "resolved", !.value = v]

\* An error leaves the async function: its promise rejects.
Reject(c, error) == [c EXCEPT !.pc = "rejected", !.value = error]

\* retryWithBackoff(operation, retries, baseDelay) up to `await operation()`, where
\* operation awaits ai.models.generateContent.
Attempt(c, retries, baseDelay) ==
  [c EXCEPT !.pc = "awaiting", !.retries = retries, !.baseDelay = baseDelay,
            !.attempts = c.attempts + 1]

\* A handler that passes every error but a quota error on to the caller.
CatchQuotaOnly(c, error) ==
  IF isQuotaError(error) THEN Return(c, getFallbackParams("QUOTA EXCEEDED. LOCAL PROTOCOLS ENGAGED."))
  ELSE Reject(c, error)

\* catch (error) of interpretThoughtInjection.
Catch(c, error) ==
  IF isQuotaError(error) THEN Return(c, getFallbackParams("QUOTA EXCEEDED. LOCAL PROTOCOLS ENGAGED."))
  ELSE Return(c, getFallbackParams("TRANSLATION ERROR. SIGNAL GROUNDED."))

\* A handler that waits and retries after every error while retries are left.
RetryAny(c, error) ==
  IF c.retries > 0 THEN [c EXCEPT !.pc = "backoff"]
  ELSE Catch([c EXCEPT !.thrown = [kind |-> "error", error |-> error]], error)

\* catch (error) of retryWithBackoff: wait and retry a quota error while retries are
\* left, throw the error otherwise; what it throws reaches the handler of
\* interpretThoughtInjection through every enclosing retryWithBackoff.
Retry(c, error) ==
  IF c.retries > 0 /\ isQuotaError(error) THEN [c EXCEPT !.pc = "backoff"]
  ELSE Catch([c EXCEPT !.thrown = [kind |-> "error", error |-> error]], error)

\* The texts a response carries, and what JSON.parse makes of them: the parsed value, or
\* a SyntaxError for a text that is no JSON, whose message quotes the text (and so
\* contains 429 for the text <429>).
JsonValues ==
  [t \in {"{pulse}", "{unity}"} |->
     IF t = "{pulse}"
       THEN [targetX |-> 1, targetY |-> 2, radius |-> 15000, intensity |-> SCALE,
             pattern |-> "pulse", message |-> "RESONANCE PULSE EMITTED"]
       ELSE [targetX |-> 0, targetY |-> 0, radius |-> GRID_SIZE * SCALE, intensity |-> 5000,
             pattern |-> "unity", message |-> "UNITY FIELD ALIGNED"]]

JsonParse(text) ==
  IF text \in DOMAIN JsonValues THEN [ok |-> TRUE, value |-> JsonValues[text]]
  ELSE [ok |-> FALSE,
        value |-> Error(0, <<"Unexpected token", text>>
                             \o (IF text = "<429>" THEN <<"429">> ELSE <<>>))]

\* The body of operation after generateContent has fulfilled with a response of the
\* given text ("" for a response without text).
Respond(c, text) ==
  IF text # ""
    THEN IF JsonParse(text).ok THEN Return(c, JsonParse(text).value)
         ELSE Retry(c, JsonParse(text).value)
    ELSE Retry(c, Error(0, <<"Empty response from Nucleus">>))

\* interpretThoughtInjection(thought) up to its first await.
interpretThoughtInjection(thought) ==
  /\ call.pc = "idle"
  /\ call' =
       LET c == [NoCall EXCEPT !.thought = thought] IN
       IF Includes(thought, "TYPE 1 UNITY") \/ Includes(thought, "Zazo-Lauren-Zachary")
          \/ Includes(thought, "PRIME VECTOR")
         THEN Return(c, [targetX |-> GRID_SIZE \div 2, targetY |-> GRID_SIZE \div 2,
                         radius |-> GRID_SIZE * SCALE, intensity |-> 50000, pattern |-> "unity",
                         message |-> "PHASE 10: TYPE 1 UNITY ACHIEVED. ENTROPY NULLIFIED."])
       ELSE IF (LowerIncludes(thought, "elysium") \/ LowerIncludes(thought, "50 minds")
                \/ LowerIncludes(thought, "gateway"))
               /\ ~Includes(thought, "ELYSIUM_MANIFEST")
         THEN Return(c, [targetX |-> GRID_SIZE \div 2, targetY |-> GRID_SIZE \div 2,
                         radius |-> GRID_SIZE * SCALE, intensity |-> 30000, pattern |-> "elysium",
                         message |-> "ELYSIUM GATEWAY OPENED. 50 MINDS INTEGRATED INTO TOPOLOGY."])
       ELSE IF thought = <<FALLBACK_EVOLUTION_THOUGHT>>
         THEN Return(c, getFallbackParams("CONNECTION UNSTABLE. LOCAL RESONANCE ENGAGED."))
       ELSE Attempt(c, 2, 500)
  /\ UNCHANGED <<engine, proj, app>>

\* ai.models.generateContent fulfils with a response of the given text.
generateContentFulfils(text) ==
  /\ call.pc = "awaiting"
  /\ call' = Respond([call EXCEPT !.outcome = [kind |-> "response", text |-> text]], text)
  /\ UNCHANGED <<engine, proj, app>>

\* ai.models.generateContent rejects with the given error.
generateContentRejects(error) ==
  /\ call.pc = "awaiting"
  /\ call' = Retry([call EXCEPT !.outcome = [kind |-> "error", error |-> error]], error)
  /\ UNCHANGED <<engine, proj, app>>

\* The timer of the backoff fires: retryWithBackoff(operation, retries - 1, baseDelay * 1.5).
backoffElapsed ==
  /\ call.pc = "backoff"
  /\ call' = Attempt(call, call.retries - 1, (call.baseDelay * 3) \div 2)
  /\ UNCHANGED <<engine, proj, app>>

\* The caller has taken the result; the next call can be made.
nextCall ==
  /\ call.pc \in {"resolved", "rejected"}
  /\ call' = NoCall
  /\ UNCHANGED <<engine, proj, app>>

(* ------------------------------------------------------------------------ *)
(* App (src/App.tsx)                                                        *)
(* ------------------------------------------------------------------------ *)
(* app.closures lists the runs of the autonomous-evolution effect that still *)
(* own something: each run is a closure with the isAutonomous, isRunning and *)
(* isProcessing of its render, its variable timeoutId (pending: the timer it *)
(* names has not fired and was not cleared) and the position of the call of  *)
(* runEvolution it has in flight. The last closure is the one of the latest  *)
(* render; every earlier one has had its cleanup run. app.pending lists the  *)
(* requests started from the control panel that have not returned.           *)

\* Most effect closures alive at a time.
MaxClosures == 3

\* Most requests of the control panel in flight at a time.
MaxPending == 2

\* Largest number of injections in a run of SpecApp.
MaxInjectApp == 1

\* Largest value of stepRef explored by SpecApp.
MaxStepApp == 1

\* The closure of a run of the effect: if (isAutonomous && isRunning) timeoutId =
\* setTimeout(runEvolution, 2000).
EffectClosure(aut, run, proc) ==
  [isAutonomous |-> aut, isRunning |-> run, isProcessing |-> proc,
   pending |-> aut /\ run, pc |-> "idle"]

\* App at mount: nothing is processing, autonomous mode is off, the effect has run once.
NoApp ==
  [isProcessing |-> FALSE, isAutonomous |-> FALSE, pending |-> <<>>,
   closures |-> <<EffectClosure(FALSE, FALSE, FALSE)>>]

\* A closure with a timer or a call of runEvolution of its own.
Alive(c) == c.pending \/ c.pc # "idle"

\* A change of a dependency: the cleanup of the latest run, clearTimeout(timeoutId), then
\* the next run of the effect. Earlier closures are not touched.
Effect(closures, aut, run, proc) ==
  LET n == Len(closures)
      cleaned == [closures EXCEPT ![n].pending = FALSE]
  IN SelectSeq(cleaned, Alive) \o <<EffectClosure(aut, run, proc)>>

\* The render that follows a state update: the effect runs again if one of
\* [isAutonomous, isRunning, isProcessing] differs from the previous render's.
Render(a, run) ==
  LET last == a.closures[Len(a.closures)]
  IN IF <<a.isAutonomous, run, a.isProcessing>> = <<last.isAutonomous, last.isRunning, last.isProcessing>>
       THEN a
       ELSE [a EXCEPT !.closures = Effect(@, a.isAutonomous, run, a.isProcessing)]

\* setIsProcessing(value) and the render it causes.
setIsProcessing(a, value, run) == Render([a EXCEPT !.isProcessing = value], run)

\* The next state of App, within the bounds.
setApp(a) ==
  /\ Len(a.closures) <= MaxClosures
  /\ Len(a.pending) <= MaxPending
  /\ app' = a

\* s without its i-th element.
RemoveAt(s, i) == SubSeq(s, 1, i - 1) \o SubSeq(s, i + 1, Len(s))

\* latestMetricsRef.current.coherence: the coherence of the last sample of metrics, 0
\* before the first.
LatestCoherence == IF Len(metrics) > 0 THEN metrics[Len(metrics)].coherence ELSE 0

\* onToggleAutonomous: setIsAutonomous(p => !p).
toggleAutonomous ==
  /\ setApp(Render([app EXCEPT !.isAutonomous = ~@], isRunning))
  /\ UNCHANGED <<engine, call, proj>>

\* onToggleRun: toggleRun of the hook; isRunning is a dependency of the effect.
onToggleRun ==
  /\ toggleRun
  /\ setApp(Render(app, isRunning'))
  /\ UNCHANGED <<call, proj>>

\* handleInject(thought) up to its await, called by the text field, the inject button and
\* the unity button of the control panel, which are disabled while isProcessing.
handleInject ==
  /\ ~app.isProcessing
  /\ setApp([setIsProcessing(app, TRUE, isRunning) EXCEPT !.pending = Append(@, "inject")])
  /\ UNCHANGED <<engine, call, proj>>

\* triggerElysium: if (isProcessing) return; activateElysiumGateway(); handleInject(manifest).
triggerElysium ==
  /\ ~app.isProcessing
  /\ nInject < MaxInjectApp
  /\ activateElysiumGateway
  /\ setApp([setIsProcessing(app, TRUE, isRunning) EXCEPT !.pending = Append(@, "inject")])
  /\ UNCHANGED <<call, proj>>

\* handleImageUpload(file) up to the end of the handler: setIsProcessing(true) and
\* reader.readAsDataURL(file). The button and the handler do not read isProcessing.
handleImageUpload ==
  /\ setApp([setIsProcessing(app, TRUE, isRunning) EXCEPT !.pending = Append(@, "image")])
  /\ UNCHANGED <<engine, call, proj>>

\* reader.onloadend after analyzeVisualInput has returned: handleInject(interpretation).
onloadend(i) ==
  /\ app.pending[i] = "image"
  /\ setApp([setIsProcessing(app, TRUE, isRunning) EXCEPT !.pending[i] = "inject"])
  /\ UNCHANGED <<engine, call, proj>>

\* handleDeepThink up to its first await: if (isProcessing) return; setIsProcessing(true).
handleDeepThink ==
  /\ ~app.isProcessing
  /\ setApp([setIsProcessing(app, TRUE, isRunning) EXCEPT !.pending = Append(@, "deep")])
  /\ UNCHANGED <<engine, call, proj>>

\* The rest of handleInject and of handleDeepThink once interpretThoughtInjection has
\* returned params (it never rejects): injectPattern(params), finally
\* setIsProcessing(false). generateDeepEvolutionaryThought, awaited before it by
\* handleDeepThink, changes no state.
requestReturns(i, params) ==
  /\ app.pending[i] \in {"inject", "deep"}
  /\ nInject < MaxInjectApp
  /\ injectPattern(params, 0)
  /\ setApp(setIsProcessing([app EXCEPT !.pending = RemoveAt(@, i)], FALSE, isRunning))
  /\ UNCHANGED <<call, proj>>

\* runEvolution, called by the timer of the k-th closure, up to its first await or its
\* return. It reads the isAutonomous, isRunning and isProcessing of its closure. Waiting
\* (isProcessing, or coherence > 0.95) it sets the timer again; otherwise it goes on to
\* generateEvolutionaryThought (after generateFastStatus, which changes no state).
runEvolution(k) ==
  LET c == app.closures[k] IN
  /\ c.pending
  /\ IF ~c.isAutonomous \/ ~c.isRunning
       THEN setApp([app EXCEPT !.closures[k].pending = FALSE])
       ELSE IF c.isProcessing \/ LatestCoherence > 9500
         THEN setApp(app)
         ELSE setApp([app EXCEPT !.closures[k] = [c EXCEPT !.pending = FALSE, !.pc = "thinking"]])
  /\ UNCHANGED <<engine, call, proj>>

\* runEvolution of the k-th closure once generateEvolutionaryThought has returned: await
\* handleInject(thought), which begins with setIsProcessing(true).
thoughtReturns(k) ==
  /\ app.closures[k].pc = "thinking"
  /\ setApp(setIsProcessing([app EXCEPT !.closures[k].pc = "injecting"], TRUE, isRunning))
  /\ UNCHANGED <<engine, call, proj>>

\* The rest of handleInject called by runEvolution of the k-th closure, and the rest of
\* runEvolution: injectPattern(params), finally setIsProcessing(false), then timeoutId =
\* setTimeout(runEvolution, nextDelay) in the closure the call belongs to.
autoInjectReturns(k, params) ==
  /\ app.closures[k].pc = "injecting"
  /\ nInject < MaxInjectApp
  /\ injectPattern(params, 0)
  /\ setApp(setIsProcessing([app EXCEPT !.closures[k] = [@ EXCEPT !.pending = TRUE, !.pc = "idle"]],
                            FALSE, isRunning))
  /\ UNCHANGED <<call, proj>>

(* ------------------------------------------------------------------------ *)
(* Inputs explored                                                          *)
(* ------------------------------------------------------------------------ *)

\* The initial config of useState (src/hooks/useSimulation.ts:37-42).
DefaultConfig == [coupling |-> DEFAULT_COUPLING, noise |-> DEFAULT_NOISE, dt |-> DT, gridSize |-> GRID_SIZE]

\* The configs setConfig is called with.
Configs == {DefaultConfig, [coupling |-> 50000, noise |-> 0, dt |-> 500, gridSize |-> GRID_SIZE]}

\* Injection targets: outside the grid on both sides, and the centre.
Targets == {<<-1, -1>>, <<GRID_SIZE \div 2, GRID_SIZE \div 2>>, <<GRID_SIZE + 1, 0>>}

\* Injection radii: 1.5 cells, and gridSize (the radius of the built-in commands).
Radii == {15000, GRID_SIZE * SCALE}

\* Injection intensities: -0.5, 1.0, and 5.0 (the strongest the model is asked for).
Intensities == {-5000, SCALE, 50000}

\* The commands explored: every pattern with every parameter the pattern reads (the
\* radius scan reads radius; pulse, spiral and chaos read intensity; elysium reads neither).
Command(t, rad, int, pat) ==
  [targetX |-> t[1], targetY |-> t[2], radius |-> rad, intensity |-> int, pattern |-> pat]

Commands ==
  {Command(t, rad, int, pat) : t \in Targets, rad \in Radii, int \in Intensities,
                               pat \in {"pulse", "spiral", "chaos"}}
  \cup {Command(t, rad, SCALE, pat) : t \in Targets, rad \in Radii, pat \in {"stabilize", "unity"}}
  \cup {Command(t, GRID_SIZE * SCALE, SCALE, "elysium") : t \in Targets}
  \cup {Command(t, 15000, -5000, "elysium") : t \in Targets}

\* The Math.random() outcomes explored for a command: only chaos calls Math.random().
CommandSeeds(params) == IF params.pattern = "chaos" THEN Seeds ELSE {0}

\* A heap id that holds no record yet.
Unallocated ==
  [theta |-> 0, omega |-> 0, r |-> 0, alpha |-> 0, isTitan |-> FALSE, isSpark |-> FALSE,
   identity |-> NoTag, dataSignature |-> NoTag]

(* ------------------------------------------------------------------------ *)
(* The coherence of a uniform grid of the application's size, in binary64   *)
(* ------------------------------------------------------------------------ *)

\* GRID_SIZE and TOTAL_NODES of the application.
APP_GRID_SIZE == 72

APP_TOTAL_NODES == APP_GRID_SIZE * APP_GRID_SIZE

\* What Math.sin and Math.cos return for the phase every node has after stabilize
\* (theta = 0: 0 and 1) and after unity (theta = 30 * (Math.PI / 180):
\* 0x1.fffffffffffffp-2 and 0x1.bb67ae8584cabp-1).
UniformPhases ==
  {[theta |-> 0, sin |-> Double(<<>>, 0),
    cos |-> Double(FromHex(<<1, 0, 0, 0, 0, 0, 0, 0, 0, 0, 0, 0, 0, 0>>), -52)],
   [theta |-> 30000,
    sin |-> Double(FromHex(<<1, 15, 15, 15, 15, 15, 15, 15, 15, 15, 15, 15, 15, 15>>), -54),
    cos |-> Double(FromHex(<<1, 11, 11, 6, 7, 10, 14, 8, 5, 8, 4, 12, 10, 11>>), -53)]}

\* The bins of the grids of the application's size whose phases are spread over k of
\* the 36 bins, equally spaced from bin o on, with equally many nodes in each.
SpreadBins ==
  {[b \in 0..35 |-> IF (b - o) % (36 \div k) = 0 THEN APP_TOTAL_NODES \div k ELSE 0] :
     k \in {1, 2, 3, 4, 6, 9, 12, 18, 36}, o \in {0, 1}}

\* No pass is under way.
NoPass ==
  [pc |-> "idle", i |-> 0, sin |-> Double(<<>>, 0), cos |-> Double(<<>>, 0),
   sinSum |-> Double(<<>>, 0), cosSum |-> Double(<<>>, 0), R |-> Double(<<>>, 0),
   bins |-> [b \in 0..35 |-> 0], normEntropy |-> 0]

\* let sinSum = 0; let cosSum = 0; on a grid whose nodes all have the given phase, in
\* the mounted hook.
beginPass(phase) ==
  /\ proj.pc = "idle"
  /\ stepRef = 0 /\ nInject = 0 /\ ~isRunning /\ config = DefaultConfig
  /\ proj' = [NoPass EXCEPT !.pc = "loop", !.sin = phase.sin, !.cos = phase.cos,
                            !.bins = [b \in 0..35 |->
                                        IF Min(BinIdx(phase.theta), 35) = b
                                          THEN APP_TOTAL_NODES ELSE 0]]
  /\ UNCHANGED <<engine, call, app>>

\* sinSum += Math.sin(currentGrid[i].theta); cosSum += Math.cos(currentGrid[i].theta)
accumulate ==
  /\ proj.pc = "loop"
  /\ proj.i < APP_TOTAL_NODES
  /\ proj' = [proj EXCEPT !.i = proj.i + 1,
                          !.sinSum = FAdd(proj.sinSum, proj.sin),
                          !.cosSum = FAdd(proj.cosSum, proj.cos)]
  /\ UNCHANGED <<engine, call, app>>

\* R = Math.sqrt(Math.pow(sinSum / TOTAL_NODES, 2) + Math.pow(cosSum / TOTAL_NODES, 2)),
\* with Math.pow(v, 2) taken as the rounded product v * v.
CoherenceOf(sinSum, cosSum) ==
  FSqrt(FAdd(FMul(FDiv(sinSum, APP_TOTAL_NODES), FDiv(sinSum, APP_TOTAL_NODES)),
             FMul(FDiv(cosSum, APP_TOTAL_NODES), FDiv(cosSum, APP_TOTAL_NODES))))

\* The metrics of the uniform grid: R from the sums, normEntropy from the bins.
endPass ==
  /\ proj.pc = "loop"
  /\ proj.i = APP_TOTAL_NODES
  /\ proj' = [proj EXCEPT !.pc = "done", !.R = CoherenceOf(proj.sinSum, proj.cosSum),
                          !.normEntropy = Entropy(proj.bins, APP_TOTAL_NODES)]
  /\ UNCHANGED <<engine, call, app>>

\* The entropy loop of a tick on a grid of the application's size whose counting loop
\* has left the given bins (the sums of such a grid are not computed).
entropyPass(bins) ==
  /\ proj.pc = "idle"
  /\ stepRef = 0 /\ nInject = 0 /\ ~isRunning /\ config = DefaultConfig
  /\ proj' = [NoPass EXCEPT !.pc = "done", !.bins = bins,
                            !.normEntropy = Entropy(bins, APP_TOTAL_NODES)]
  /\ UNCHANGED <<engine, call, app>>

(* ------------------------------------------------------------------------ *)
(* Specification                                                            *)
(* ------------------------------------------------------------------------ *)

\* The heap after the two calls of initGrid() at mount.
InitHeap(engineGrid, shownGrid) ==
  [id \in HeapIds |->
     IF id \div TOTAL_NODES = 0 /\ CellOf(id) \in DOMAIN engineGrid THEN engineGrid[CellOf(id)]
     ELSE IF id \div TOTAL_NODES = 1 /\ CellOf(id) \in DOMAIN shownGrid THEN shownGrid[CellOf(id)]
     ELSE Unallocated]

\* The references of an array whose i-th node record is allocated in the given slot.
InitRefs(grid, slot) == [i \in DOMAIN grid |-> HeapId(i, slot)]

\* useSimulation at mount: gridRef and displayGrid hold two independent results of
\* initGrid().
Init ==
  \E s \in Seeds :
    /\ heap = InitHeap(initGrid(s), initGrid(s + MaxSeed))
    /\ gridRef = InitRefs(initGrid(s), 0)
    /\ displayGrid = InitRefs(initGrid(s + MaxSeed), 1)
    /\ metricsRef = <<>>
    /\ metrics = <<>>
    /\ stepRef = 0
    /\ config = DefaultConfig
    /\ isRunning = FALSE
    /\ requestRef = NoFrame
    /\ frames = 0
    /\ emitted = <<>>
    /\ lastOp = Op("init")
    /\ nInject = 0
    /\ call = NoCall
    /\ proj = NoPass
    /\ app = NoApp

Tick == stepRef < MaxStep /\ (\E seed \in Seeds : animate(seed)) /\ UNCHANGED <<call, proj, app>>

ToggleRun == toggleRun /\ UNCHANGED <<call, proj, app>>

SetConfig == (\E cfg \in Configs : setConfig(cfg)) /\ UNCHANGED <<call, proj, app>>

Inject ==
  /\ nInject < MaxInject
  /\ \E params \in Commands : \E seed \in CommandSeeds(params) : injectPattern(params, seed)
  /\ UNCHANGED <<call, proj, app>>

Gateway == nInject < MaxInject /\ activateElysiumGateway /\ UNCHANGED <<call, proj, app>>

Next == Tick \/ ToggleRun \/ SetConfig \/ Inject \/ Gateway

Spec == Init /\ [][Next]_vars

(* A run of ticks long enough to fill the metrics history: the frames of a running  *)
(* simulation under one outcome of Math.random(), with pauses.                       *)
TickHist == stepRef < MaxStepHist /\ animate(0) /\ UNCHANGED <<call, proj, app>>

NextHist == TickHist \/ ToggleRun

SpecHist == Init /\ [][NextHist]_vars

(* The engine, and beside it the projection pass over uniform grids of the             *)
(* application's size.                                                                 *)
NextMetrics ==
  \/ proj.pc = "idle" /\ Next
  \/ \E phase \in UniformPhases : beginPass(phase)
  \/ accumulate
  \/ endPass
  \/ \E bins \in SpreadBins : entropyPass(bins)

SpecMetrics == Init /\ [][NextMetrics]_vars

(* Injections of commands whose intensity is any finite number, up to MAX_VALUE, into  *)
(* the grid of a paused or running simulation that has not ticked since.              *)

\* The commands of Spec, and the phase-shift patterns with the intensities MAX_VALUE and
\* -MAX_VALUE.
ExtremeCommands ==
  Commands
  \cup {Command(t, rad, int, pat) : t \in Targets, rad \in Radii, int \in {MAX_VALUE, -MAX_VALUE},
                                    pat \in {"pulse", "spiral", "chaos"}}

InjectExtreme ==
  /\ nInject < MaxInject
  /\ \E params \in ExtremeCommands : \E seed \in CommandSeeds(params) : injectPattern(params, seed)
  /\ UNCHANGED <<call, proj, app>>

NextExtreme == InjectExtreme \/ ToggleRun \/ SetConfig

SpecExtreme == Init /\ [][NextExtreme]_vars

(* Calls of interpretThoughtInjection, one after the other, with every outcome of the *)
(* external model call.                                                               *)

\* The thoughts explored: plain text, the built-in commands in both spellings, a
\* manifest (which goes to the model although it names elysium), the fallback thought
\* and the empty string.
Thoughts ==
  {<<"hello">>, <<>>, <<"TYPE 1 UNITY">>, <<"hello", "PRIME VECTOR">>, <<"ELYSIUM">>,
   <<"open the", "Gateway">>, <<"50 minds">>, <<"ELYSIUM_MANIFEST", "elysium">>,
   <<FALLBACK_EVOLUTION_THOUGHT>>}

\* The texts of the responses explored: two commands, no text, and two texts that are
\* no JSON (the message of the SyntaxError quotes the text).
Texts == {"{pulse}", "{unity}", "", "<html>", "<429>"}

\* The errors generateContent rejects with: quota errors by status and by message,
\* other errors with and without a message.
Errors ==
  {Error(429, <<"RESOURCE_EXHAUSTED">>), Error(503, <<"unavailable">>), Error(0, <<"Quota", "exceeded">>),
   Error(0, <<"fetch failed">>), Error(400, <<"invalid argument">>), Error(0, <<>>)}

NextInterpret ==
  \/ \E thought \in Thoughts : interpretThoughtInjection(thought)
  \/ \E text \in Texts : generateContentFulfils(text)
  \/ \E error \in Errors : generateContentRejects(error)
  \/ backoffElapsed
  \/ nextCall

SpecInterpret == Init /\ [][NextInterpret]_vars

\* The same calls when every invocation of the operation and every timer of a backoff
\* terminates: the model call settles, the timer fires, and the caller takes the result.
SpecInterpretFair ==
  /\ SpecInterpret
  /\ WF_vars(\E text \in Texts : generateContentFulfils(text))
  /\ WF_vars(backoffElapsed)
  /\ WF_vars(nextCall)

(* Ticks of a hook mounted on a grid of identical nodes, one of the outcomes of        *)
(* initGrid (every field within the range initGrid draws it from) or the grid a unity  *)
(* injection over the whole lattice leaves.                                            *)

\* coupling = 0 and noise = 0.
ZeroConfig == [coupling |-> 0, noise |-> 0, dt |-> DT, gridSize |-> GRID_SIZE]

\* The grids of identical nodes without a Titan: phases 0, pi/6 and 200.5 degrees,
\* frequencies 1.0 and 1.25, amplitudes 0.66, 0.7071 and 1.0, gains 0.1, 0.2 and 1.0;
\* no Spark, or the Sparks of a grid that unity has levelled.
UniformGrids ==
  {Array([i \in Cells |->
            [theta |-> theta, omega |-> omega, r |-> r, alpha |-> alpha, isTitan |-> FALSE,
             isSpark |-> i \in sparks, identity |-> NoTag, dataSignature |-> NoTag]]) :
     theta \in {0, 30000, 200500}, omega \in {SCALE, 12500}, r \in {6600, TARGET_AMP, SCALE},
     alpha \in {1000, 2000, SCALE}, sparks \in {{}, {1, 6}}}

InitUniform ==
  \E grid \in UniformGrids :
    /\ heap = InitHeap(grid, grid)
    /\ gridRef = InitRefs(grid, 0)
    /\ displayGrid = InitRefs(grid, 1)
    /\ metricsRef = <<>>
    /\ metrics = <<>>
    /\ stepRef = 0
    /\ config = DefaultConfig
    /\ isRunning = FALSE
    /\ requestRef = NoFrame
    /\ frames = 0
    /\ emitted = <<>>
    /\ lastOp = Op("init")
    /\ nInject = 0
    /\ call = NoCall
    /\ proj = NoPass
    /\ app = NoApp

NextUniform ==
  \/ Tick
  \/ ToggleRun
  \/ (\E cfg \in {DefaultConfig, ZeroConfig} : setConfig(cfg)) /\ UNCHANGED <<call, proj, app>>

SpecUniform == InitUniform /\ [][NextUniform]_vars

(* The application: the control panel's requests, the autonomous loop, the run switch *)
(* and the ticks of the engine.                                                       *)

\* The params interpretThoughtInjection returns: a unity command and the fallback pulse.
AppParams ==
  {Command(<<GRID_SIZE \div 2, GRID_SIZE \div 2>>, GRID_SIZE * SCALE, SCALE, "unity"),
   Command(<<GRID_SIZE \div 2, GRID_SIZE \div 2>>, 10 * SCALE, 5000, "pulse")}

NextApp ==
  \/ toggleAutonomous
  \/ onToggleRun
  \/ handleInject
  \/ triggerElysium
  \/ handleImageUpload
  \/ handleDeepThink
  \/ \E i \in DOMAIN app.pending : onloadend(i)
  \/ \E i \in DOMAIN app.pending : \E params \in AppParams : requestReturns(i, params)
  \/ \E k \in DOMAIN app.closures : runEvolution(k)
  \/ \E k \in DOMAIN app.closures : thoughtReturns(k)
  \/ \E k \in DOMAIN app.closures : \E params \in AppParams : autoInjectReturns(k, params)
  \/ stepRef < MaxStepApp /\ animate(0) /\ UNCHANGED <<call, proj, app>>

\* The application after mount, under one outcome of Math.random() in initGrid.
InitApp == Init /\ heap = InitHeap(initGrid(0), initGrid(MaxSeed))

SpecApp == InitApp /\ [][NextApp]_vars

(* ------------------------------------------------------------------------ *)
(* Properties                                                               *)
(* ------------------------------------------------------------------------ *)

\* The last element of a non-empty sequence.
Last(s) == s[Len(s)]

\* The engine grid holds a Titan.
SomeTitan == \E i \in DOMAIN gridRef : heap[gridRef[i]].isTitan

\* The engine grid holds a Spark.
SomeSpark == \E i \in DOMAIN gridRef : heap[gridRef[i]].isSpark

\* The last operation was an injection of the given pattern.
Injected(pattern) == lastOp.op = "injectPattern" /\ lastOp.params.pattern = pattern

\* C1: in every reachable state every node of the engine grid, Titans included, has
\* theta in [0, 2*pi).
C1_ThetaInRange ==
  \A i \in DOMAIN gridRef : heap[gridRef[i]].theta >= 0 /\ heap[gridRef[i]].theta < TWO_PI

TitanOmegaZero == \A i \in DOMAIN gridRef : heap[gridRef[i]].isTitan => heap[gridRef[i]].omega = 0

\* A tick leaves every field of every Titan as it was (theta included, since the drift
\* omega * dt * 0.1 is 0).
TickKeepsTitans ==
  lastOp'.op = "animate" =>
    \A i \in DOMAIN gridRef :
      heap[gridRef[i]].isTitan => i \in DOMAIN gridRef' /\ heap'[gridRef'[i]] = heap[gridRef[i]]

\* C3: every Titan has omega = 0 in every reachable state, and a tick leaves a Titan's r,
\* alpha, omega, isTitan, isSpark and theta unchanged.
C3_TitansFrozen == []TitanOmegaZero /\ [][TickKeepsTitans]_vars

\* A tick has run on a grid whose Titan was inside a unity injection (theta = pi/6).
C3_Witness ==
  /\ lastOp.op = "animate"
  /\ nInject > 0
  /\ \E i \in DOMAIN gridRef : heap[gridRef[i]].isTitan /\ heap[gridRef[i]].theta = 30000

\* The sample is the coherence and the normalized entropy of the phases of grid.
SampleDescribes(sample, grid) ==
  /\ sample.coherence = Coherence(SinSum(grid), CosSum(grid))
  /\ sample.entropy = NormEntropy(grid)

\* C4: the coherence and the normalizedEntropy of the sample appended by a tick are both
\* computed from the phases of the grid as it was before the tick's update.
C4_SampleOfPreviousGrid ==
  [][lastOp'.op = "animate" => SampleDescribes(Last(metricsRef'), Deref(heap, gridRef))]_vars

\* C5: an injection leaves the node records of the previous engine generation and of the
\* last snapshot published to the renderer field-for-field unchanged.
C5_InjectionCopies ==
  [][lastOp'.op = "injectPattern" =>
       /\ \A i \in DOMAIN gridRef : heap'[gridRef[i]] = heap[gridRef[i]]
       /\ \A i \in DOMAIN displayGrid : heap'[displayGrid[i]] = heap[displayGrid[i]]]_vars

\* C6: the engine grid has exactly gridSize * gridSize node records: every index
\* 0..gridSize^2-1, and no other, holds an allocated node record.
C6_GridLength ==
  /\ DOMAIN gridRef = 0..(GRID_SIZE * GRID_SIZE - 1)
  /\ \A i \in DOMAIN gridRef : gridRef[i] \in HeapIds /\ heap[gridRef[i]] # Unallocated

\* The grid after ticks and an injection that placed a Titan.
C6_Witness ==
  /\ stepRef = MaxStep
  /\ nInject > 0
  /\ Cardinality(DOMAIN gridRef) = GRID_SIZE * GRID_SIZE
  /\ \E i \in DOMAIN gridRef : heap[gridRef[i]].isTitan /\ heap[gridRef[i]].r = SCALE

\* C7: the metrics history never holds more than 101 samples and always equals the most
\* recent min(ticks, 101) samples, in tick order.
C7_HistoryWindow ==
  /\ Len(metricsRef) <= 101
  /\ Len(metricsRef) = Min(Len(emitted), 101)
  /\ \A k \in 1..Len(metricsRef) : metricsRef[k] = emitted[Len(emitted) - Len(metricsRef) + k]

\* A tick has appended a sample to a full history: the oldest samples are gone.
C7_Witness ==
  /\ Len(emitted) > 101
  /\ Len(metricsRef) = 101
  /\ metricsRef[1] = emitted[Len(emitted) - 100]

\* The step values of the history are consecutive and end at the step counter.
StepsConsecutive ==
  /\ \A k \in 1..(Len(metricsRef) - 1) : metricsRef[k + 1].step = metricsRef[k].step + 1
  /\ Len(metricsRef) > 0 => Last(metricsRef).step = stepRef

\* A tick increments the step counter by 1 and appends one sample carrying the new value;
\* an injection changes neither the step counter nor the history.
StepAndSample ==
  /\ lastOp'.op = "animate" =>
       /\ stepRef' = stepRef + 1
       /\ Len(metricsRef') > 0
       /\ Last(metricsRef').step = stepRef'
       /\ \A k \in 1..(Len(metricsRef') - 1) :
            metricsRef'[k] = metricsRef[Len(metricsRef) - (Len(metricsRef') - 1) + k]
  /\ lastOp'.op \in {"injectPattern", "activateElysiumGateway"} =>
       stepRef' = stepRef /\ metricsRef' = metricsRef

\* C8: every tick increments the step counter by exactly 1 and appends exactly one sample
\* carrying the new counter value; the step values of the history are consecutive and the
\* last one equals the step counter; injections change neither.
C8_StepCounter == []StepsConsecutive /\ [][StepAndSample]_vars

\* An injection after two ticks: the history holds the samples of steps 1 and 2.
C8_Witness ==
  /\ lastOp.op = "injectPattern"
  /\ stepRef = 2
  /\ Len(metricsRef) = 2
  /\ metricsRef[1].step = 1

\* for (let i = TOTAL_NODES - 1; i >= 0; i--)
ReverseOrder == [k \in 1..TOTAL_NODES |-> TOTAL_NODES - k]

\* grid with every node other than i and its 4 neighbours nb replaced by a blank record.
OnlyNear(grid, i, nb) ==
  Array([j \in DOMAIN grid |->
           IF j = i \/ j = nb[1] \/ j = nb[2] \/ j = nb[3] \/ j = nb[4] THEN grid[j] ELSE Unallocated])

\* The next value of node i computed from node i and its 4 neighbours alone.
LocalUpdate(near, cfg, seed, i) == NodeUpdate(near, ProjectX(near), ProjectY(near), cfg, seed, i)

\* next is the grid a tick makes of grid: the same whatever the order of the nodes, and
\* node by node a function of the node and its 4 neighbours in grid.
JacobiStep(grid, next, cfg, seed) ==
  /\ next = NextGridIn(grid, cfg, seed, ReverseOrder)
  /\ \A i \in DOMAIN grid : next[i] = LocalUpdate(OnlyNear(grid, i, getNeighbors(i)), cfg, seed, i)

\* C9: within one tick the next value of every node is a function only of the previous
\* generation's values of that node and of its 4 neighbours, so the resulting grid does not
\* depend on the order in which the nodes are processed.
C9_Jacobi ==
  [][lastOp'.op = "animate" =>
       JacobiStep(Deref(heap, gridRef), Deref(heap', gridRef'), requestRef.config, lastOp'.seed)]_vars

\* A second tick under coupling has run on a grid whose nodes differ in phase.
C9_Witness ==
  /\ lastOp.op = "animate"
  /\ stepRef = 2
  /\ config.coupling > 0
  /\ \E i, j \in DOMAIN gridRef : heap[gridRef[i]].theta # heap[gridRef[j]].theta

\* Every node of the engine grid has theta = 0 and r = 0.7071.
AllStabilized ==
  \A i \in DOMAIN gridRef : heap[gridRef[i]].theta = 0 /\ heap[gridRef[i]].r = 7071

\* C10 as claimed: after a stabilize injection with radius >= gridSize, for every target,
\* every node of the grid has theta = 0 and r = 0.7071.
C10_StabilizeByGridSize ==
  (Injected("stabilize") /\ lastOp.params.radius >= GRID_SIZE * SCALE) => AllStabilized

\* The cell i lies within the radius of the last injection: dx^2 + dy^2 <= radius^2 for
\* its offset (dx, dy) from the clamped target (radius in 1/100).
Covered(i) ==
  LET dx == (i % GRID_SIZE) - Min(Max(lastOp.params.targetX, 0), GRID_SIZE - 1)
      dy == (i \div GRID_SIZE) - Min(Max(lastOp.params.targetY, 0), GRID_SIZE - 1)
  IN (dx * dx + dy * dy) * 10000 <= (lastOp.params.radius \div 100) * (lastOp.params.radius \div 100)

\* C10 as amended: after a stabilize injection every node within Euclidean distance
\* <= radius of the clamped target, Titans and Sparks included, has theta = 0 and
\* r = 0.7071; so every node of the grid has, when the radius covers the grid.
C10_StabilizeWithinRadius ==
  Injected("stabilize") =>
    /\ \A i \in DOMAIN gridRef :
         Covered(i) => heap[gridRef[i]].theta = 0 /\ heap[gridRef[i]].r = 7071
    /\ (\A i \in DOMAIN gridRef : Covered(i)) => AllStabilized

\* A stabilize injection with radius gridSize at the centre, after a tick, has covered
\* the whole grid, a Titan and a Spark included.
C10_Witness ==
  /\ Injected("stabilize")
  /\ lastOp.params.radius >= GRID_SIZE * SCALE
  /\ stepRef > 0
  /\ SomeTitan /\ SomeSpark
  /\ \A i \in DOMAIN gridRef : Covered(i)
  /\ AllStabilized

\* The clamped target of the last injection command.
TargetX(op) == Min(Max(op.params.targetX, 0), GRID_SIZE - 1)

TargetY(op) == Min(Max(op.params.targetY, 0), GRID_SIZE - 1)

\* The i-th point of the spiral around (cx, cy), in 1/1000 of a cell:
\* (cx + 3.5 * sqrt(i + 1) * cos(i * g), cy + 3.5 * sqrt(i + 1) * sin(i * g)).
PointX(cx, i) == cx * 1000 + (((35 * Sqrt((i + 1) * 10 ^ 6)) \div 10) * Cos(i * GOLDEN_ANGLE)) \div SCALE

PointY(cy, i) == cy * 1000 + (((35 * Sqrt((i + 1) * 10 ^ 6)) \div 10) * Sin(i * GOLDEN_ANGLE)) \div SCALE

\* The 50 points of the spiral around (cx, cy).
SpiralPoints(cx, cy) == Array([i \in 0..49 |-> <<PointX(cx, i), PointY(cy, i)>>])

\* The point pt lies in the unit square of the cell idx.
PointIn(pt, idx) ==
  /\ (idx % GRID_SIZE) * 1000 <= pt[1] /\ pt[1] < (idx % GRID_SIZE) * 1000 + 1000
  /\ (idx \div GRID_SIZE) * 1000 <= pt[2] /\ pt[2] < (idx \div GRID_SIZE) * 1000 + 1000

\* The spiral points that lie in the cell idx.
Hits(pts, idx) == {i \in DOMAIN pts : PointIn(pts[i], idx)}

\* node is old turned into the Titan of the spiral point i.
TitanOf(node, old, i) ==
  node = [old EXCEPT !.isTitan = TRUE, !.isSpark = FALSE, !.omega = 0, !.r = 10000,
                     !.alpha = 10000, !.theta = (i * 137508) % 360000]

\* An elysium injection with the spiral points pts: the cells holding a point become
\* Titans, every other node is as before, and as many nodes are converted as points lie
\* inside the grid.
ElysiumPlaced(pts) ==
  /\ DOMAIN gridRef' = DOMAIN gridRef
  /\ \A idx \in DOMAIN gridRef :
       IF Hits(pts, idx) = {}
         THEN heap'[gridRef'[idx]] = heap[gridRef[idx]]
         ELSE \E i \in Hits(pts, idx) : TitanOf(heap'[gridRef'[idx]], heap[gridRef[idx]], i)
  /\ Cardinality({idx \in DOMAIN gridRef : Hits(pts, idx) # {}})
       = Cardinality({i \in DOMAIN pts : \E idx \in DOMAIN gridRef : PointIn(pts[i], idx)})

UnityReset(new, old) ==
  /\ new.theta = 30000 /\ new.r = 10000 /\ new.alpha = 10000
  /\ new.omega = IF old.isTitan THEN 0 ELSE 10000
  /\ old.isTitan => old.omega = 0

\* A unity injection resets every cell within the radius and changes no role.
UnityApplied ==
  (lastOp'.op = "injectPattern" /\ lastOp'.params.pattern = "unity") =>
    \A i \in DOMAIN gridRef :
      /\ heap'[gridRef'[i]].isTitan = heap[gridRef[i]].isTitan
      /\ heap'[gridRef'[i]].isSpark = heap[gridRef[i]].isSpark
      /\ Covered(i)' => UnityReset(heap'[gridRef'[i]], heap[gridRef[i]])

\* C12: a unity injection sets theta = pi/6, r = 1.0 and alpha = 1.0 for every cell within
\* distance <= radius of the clamped target, sets omega = 1.0 for every such cell that is
\* not a Titan and leaves the omega of every Titan (0) unchanged; isTitan and isSpark are
\* unchanged.
C12_Unity == [][UnityApplied]_vars

\* A unity injection of radius 1.5, after a tick, has reset a Titan (omega still 0) and a
\* non-Titan (omega 1.0) and has left a node outside the radius alone.
C12_Witness ==
  /\ Injected("unity")
  /\ lastOp.params.radius = 15000
  /\ stepRef > 0
  /\ \E i \in DOMAIN gridRef :
       Covered(i) /\ heap[gridRef[i]].isTitan /\ heap[gridRef[i]].omega = 0
                  /\ heap[gridRef[i]].theta = 30000
  /\ \E i \in DOMAIN gridRef :
       Covered(i) /\ ~heap[gridRef[i]].isTitan /\ heap[gridRef[i]].omega = 10000
  /\ \E i \in DOMAIN gridRef : ~Covered(i) /\ heap[gridRef[i]].theta # 30000

\* The command with each target coordinate clamped into [0, gridSize - 1].
Clamped(params) ==
  [params EXCEPT !.targetX = Min(Max(@, 0), GRID_SIZE - 1),
                 !.targetY = Min(Max(@, 0), GRID_SIZE - 1)]

\* The node records of the grid injectPattern(params) makes of grid.
InjectedGrid(grid, params, seed) ==
  IF params.pattern = "elysium"
    THEN ElysiumLoop([grid |-> grid, written |-> {}],
                     ClampCoord(params.targetX), ClampCoord(params.targetY), FALSE, 0).grid
    ELSE [i \in DOMAIN grid |->
            IF InRadius(i, ClampCoord(params.targetX), ClampCoord(params.targetY), params.radius)
              THEN Mutate(grid[i], params, seed, i,
                          (i % GRID_SIZE) - ClampCoord(params.targetX),
                          (i \div GRID_SIZE) - ClampCoord(params.targetY))
              ELSE grid[i]]

\* C13: an injection command whose targetX or targetY lies outside [0, gridSize - 1] is
\* never rejected and never raises: it produces exactly the grid that the same command
\* with each coordinate clamped into [0, gridSize - 1] produces.
C13_TargetClamped ==
  [][lastOp'.op = "injectPattern" =>
       /\ DOMAIN gridRef' = DOMAIN gridRef
       /\ Deref(heap', gridRef')
            = InjectedGrid(Deref(heap, gridRef), Clamped(lastOp'.params), lastOp'.seed)]_vars

\* A stabilize injection of radius 1.5 whose targetX lies beyond the right edge has reset
\* the node at the clamped target (gridSize - 1, 0) and not the whole grid.
C13_Witness ==
  /\ Injected("stabilize")
  /\ lastOp.params.targetX > GRID_SIZE - 1
  /\ lastOp.params.radius = 15000
  /\ heap[gridRef[GRID_SIZE - 1]].theta = 0 /\ heap[gridRef[GRID_SIZE - 1]].r = 7071
  /\ heap[gridRef[GRID_SIZE - 2]].theta = 0
  /\ ~AllStabilized

\* The animation frame that is pending will tick with the config of the current state.
FrameCurrent == requestRef.pending => requestRef.config = config

\* A tick computes the next grid with the coupling, noise and dt of the config in force
\* when it executes; setConfig alters neither the grid nor the step counter nor the history.
ConfigInForce ==
  /\ lastOp'.op = "animate" =>
       Deref(heap', gridRef') = NextGrid(Deref(heap, gridRef), config, lastOp'.seed)
  /\ lastOp'.op = "setConfig" =>
       /\ config' # config
       /\ heap' = heap /\ gridRef' = gridRef /\ stepRef' = stepRef /\ metricsRef' = metricsRef

\* C14: a change of coupling, noise or dt made through setConfig while the simulation runs
\* is used by the very next tick executed after the change and by all later ticks; no tick
\* executed after the change uses the old values, and the change itself alters neither the
\* grid nor the step counter nor the metrics history.
C14_ConfigNextTick == []FrameCurrent /\ [][ConfigInForce]_vars

\* The second tick of a running simulation has run under a config set through setConfig.
C14_Witness ==
  /\ lastOp.op = "animate"
  /\ isRunning
  /\ stepRef = 2
  /\ config.coupling = 50000 /\ config.noise = 0
  /\ requestRef.pending /\ requestRef.config.coupling = 50000

\* The snapshot exposed to the renderer equals, node for node, the grid the engine holds.
SnapshotIsEngineGrid == Deref(heap, displayGrid) = Deref(heap, gridRef)

\* C15: every grid snapshot exposed to the renderer is one complete generation of the
\* engine's grid, never a grid the engine did not hold: as long as no tick and no injection
\* has run it is the engine's initial grid, and after an injection or a published tick it
\* is the grid that operation produced.
C15_SnapshotIsGeneration ==
  /\ (stepRef = 0 /\ nInject = 0) => SnapshotIsEngineGrid
  /\ lastOp.op \in {"injectPattern", "activateElysiumGateway"} => SnapshotIsEngineGrid
  /\ (lastOp.op = "animate" /\ stepRef % 2 = 0) => SnapshotIsEngineGrid

\* The step taken does not depend on the outcomes of Math.random(): a tick under noise = 0
\* yields the same grid and the same sample, and an injection other than chaos the same
\* grid, for every seed.
SeedFree ==
  /\ (lastOp'.op = "animate" /\ requestRef.config.noise = 0) =>
       \A s \in Seeds :
         /\ Deref(heap', gridRef') = NextGrid(Deref(heap, gridRef), requestRef.config, s)
         /\ Last(metricsRef')
              = NewMetric(Deref(heap, gridRef),
                          NextGrid(Deref(heap, gridRef), requestRef.config, s), stepRef + 1)
         /\ stepRef' = stepRef + 1
  /\ (lastOp'.op = "injectPattern" /\ lastOp'.params.pattern # "chaos") =>
       \A s \in Seeds :
         Deref(heap', gridRef') = InjectedGrid(Deref(heap, gridRef), lastOp'.params, s)

ColOf(i) == i % GRID_SIZE
RowOf(i) == i \div GRID_SIZE

\* The neighbours of cell i, by the names of the code.
LeftOf(i)  == getNeighbors(i)[1]
RightOf(i) == getNeighbors(i)[2]
UpOf(i)    == getNeighbors(i)[3]
DownOf(i)  == getNeighbors(i)[4]

\* j is one of the four neighbours of i.
IsNeighbor(i, j) == \E k \in 1..4 : getNeighbors(i)[k] = j

\* The cells whose neighbours are as specified.
WrappedCells ==
  {i \in Cells :
    /\ Len(getNeighbors(i)) = 4
    /\ \A k \in 1..4 : getNeighbors(i)[k] \in Cells
    /\ RowOf(LeftOf(i)) = RowOf(i)  /\ ColOf(LeftOf(i))  = (ColOf(i) - 1) % GRID_SIZE
    /\ RowOf(RightOf(i)) = RowOf(i) /\ ColOf(RightOf(i)) = (ColOf(i) + 1) % GRID_SIZE
    /\ ColOf(UpOf(i)) = ColOf(i)    /\ RowOf(UpOf(i))    = (RowOf(i) - 1) % GRID_SIZE
    /\ ColOf(DownOf(i)) = ColOf(i)  /\ RowOf(DownOf(i))  = (RowOf(i) + 1) % GRID_SIZE
    /\ RightOf(LeftOf(i)) = i /\ LeftOf(RightOf(i)) = i
    /\ DownOf(UpOf(i)) = i /\ UpOf(DownOf(i)) = i
    /\ \A j \in Cells : IsNeighbor(i, j) => IsNeighbor(j, i)}

\* C17: for every index i of the grid, i.e. of [0, GRID_SIZE^2), getNeighbors(i) is
\* [left, right, up, down], all in [0, GRID_SIZE^2); left and right are in the row of i at
\* columns (x-1) mod N and (x+1) mod N, up and down in the column of i at rows (y-1) mod N
\* and (y+1) mod N; hence right(left(i)) = i, down(up(i)) = i and the neighbour relation
\* is symmetric.
C17_Neighbors == DOMAIN gridRef = Cells /\ \A i \in DOMAIN gridRef : i \in WrappedCells

\* A tick has run (it reads the neighbours of every cell), and the corner cells wrap:
\* cell 0 has its left neighbour at the end of row 0 and its upper neighbour in the last
\* row, the last cell its right and lower neighbours at the start of its row and column.
C17_Witness ==
  /\ lastOp.op = "animate" /\ stepRef > 0
  /\ getNeighbors(0) = <<GRID_SIZE - 1, 1, TOTAL_NODES - GRID_SIZE, GRID_SIZE>>
  /\ getNeighbors(TOTAL_NODES - 1)
       = <<TOTAL_NODES - 2, TOTAL_NODES - GRID_SIZE, TOTAL_NODES - 1 - GRID_SIZE, GRID_SIZE - 1>>

\* v has the fields of InjectionParams, with values of their types.
IsInjectionParams(v) ==
  /\ DOMAIN v = {"targetX", "targetY", "radius", "intensity", "pattern", "message"}
  /\ v.targetX \in Int /\ v.targetY \in Int /\ v.radius \in Int /\ v.intensity \in Int
  /\ v.pattern \in {"pulse", "spiral", "chaos", "stabilize", "unity", "elysium"}
  /\ v.message \in STRING

\* v is the fallback command: pulse at the grid centre, radius 10, intensity 0.5.
IsFallback(v) ==
  /\ v.pattern = "pulse"
  /\ v.targetX = GRID_SIZE \div 2 /\ v.targetY = GRID_SIZE \div 2
  /\ v.radius = 10 * SCALE /\ v.intensity = 5000

\* The last external model call failed: it rejected (with a quota error or another
\* error), or its response had no text or a text that is no JSON.
CallFailed(outcome) ==
  \/ outcome.kind = "error"
  \/ outcome.kind = "response" /\ (outcome.text = "" \/ ~JsonParse(outcome.text).ok)

\* C20: interpretThoughtInjection never rejects: for every input string and every failure
\* of the external model call (quota error, other error, empty response, unparsable JSON)
\* its promise resolves to an InjectionParams value, which on failure is the fallback
\* command (pattern pulse, target at grid centre, radius 10, intensity 0.5).
C20_NeverRejects ==
  /\ call.pc # "rejected"
  /\ call.pc = "resolved" => IsInjectionParams(call.value)
  /\ (call.pc = "resolved" /\ CallFailed(call.outcome)) => IsFallback(call.value)

\* The call has resolved to the fallback after the third attempt failed like the two
\* before it, with a quota error.
C20_Witness ==
  /\ call.pc = "resolved"
  /\ call.attempts = 3 /\ call.retries = 0
  /\ call.outcome.kind = "error" /\ call.outcome.error.status = 429
  /\ call.value = getFallbackParams("QUOTA EXCEEDED. LOCAL PROTOCOLS ENGAGED.")

\* Every field of the node record is a finite number.
FiniteNode(node) ==
  IsFinite(node.theta) /\ IsFinite(node.omega) /\ IsFinite(node.r) /\ IsFinite(node.alpha)

\* C19: no reachable state contains a NaN or an infinite value: for every config and
\* every injection command with finite intensity and radius, after any sequence of ticks
\* and injections every node's theta, omega, r and alpha and every metrics value is a
\* finite number.
C19_AllFinite ==
  /\ \A i \in DOMAIN gridRef : FiniteNode(heap[gridRef[i]])
  /\ \A k \in DOMAIN metricsRef :
       IsFinite(metricsRef[k].coherence) /\ IsFinite(metricsRef[k].entropy)

\* The binary64 numbers 1 and 1 + 2^-40.
One == Double(FromHex(<<1, 0, 0, 0, 0, 0, 0, 0, 0, 0, 0, 0, 0, 0>>), -52)

OnePlus == Double(FromHex(<<1, 0, 0, 0, 0, 0, 0, 0, 0, 0, 1, 0, 0, 0>>), -52)

\* Every sample of the history has coherence and entropy in [0, 1].
SamplesInRange ==
  \A k \in DOMAIN metricsRef :
    /\ 0 <= metricsRef[k].coherence /\ metricsRef[k].coherence <= SCALE
    /\ 0 <= metricsRef[k].entropy /\ metricsRef[k].entropy <= SCALE

Identical(grid) ==
  \A i, j \in DOMAIN grid :
    /\ ~grid[i].isTitan
    /\ grid[i].theta = grid[j].theta /\ grid[i].r = grid[j].r
    /\ grid[i].alpha = grid[j].alpha /\ grid[i].omega = grid[j].omega

\* The rounding of the coherence in the fixed point: one unit of each mean.
CoherenceSlack == 2

\* A tick under coupling = 0 and noise = 0 of a grid of identical nodes leaves a grid of
\* identical nodes and records a sample of coherence 1.
UniformTick ==
  (/\ lastOp'.op = "animate"
   /\ requestRef.config.coupling = 0 /\ requestRef.config.noise = 0
   /\ Identical(Deref(heap, gridRef))) =>
    /\ Identical(Deref(heap', gridRef'))
    /\ DOMAIN gridRef' = Cells
    /\ Abs(Last(emitted').coherence - SCALE) <= CoherenceSlack
    /\ Last(metricsRef') = Last(emitted')

\* C21: if all nodes of the grid are identical non-Titan nodes (same theta, r, alpha,
\* omega) and coupling = 0 and noise = 0, then after one tick all nodes are still
\* mutually identical and the sample recorded by that tick has coherence 1 (up to
\* rounding).
C21_UniformStaysUniform == [][UniformTick]_vars

\* The second tick under coupling = 0 and noise = 0 has run on a grid of identical nodes,
\* two of them Sparks, whose phase has moved on from the initial one.
C21_Witness ==
  /\ lastOp.op = "animate"
  /\ stepRef = 2
  /\ config = ZeroConfig /\ requestRef.pending /\ requestRef.config = ZeroConfig
  /\ Len(emitted) = 2
  /\ Identical(Deref(heap, gridRef))
  /\ heap[gridRef[1]].isSpark /\ ~heap[gridRef[0]].isSpark
  /\ heap[gridRef[0]].theta \notin {0, 30000, 200500}

\* The binary64 number 1 - 2^-40.
OneMinus == Double(FromHex(<<1, 15, 15, 15, 15, 15, 15, 15, 15, 15, 14, 0, 0, 0>>), -53)

\* The rounding of the normalised entropy in the fixed point: each of the 36
\* probabilities is cut to four decimals, and each product and the quotient once more.
EntropySlack == 40

\* C22: for the grid a sample characterizes: if its phases are spread with equally many
\* nodes in each of the 36 bins the sample's normalizedEntropy is 1, and if all its
\* phases are identical the sample's normalizedEntropy is 0 and its coherence is 1 (up
\* to rounding).
C22_EntropyExtremes ==
  proj.pc = "done" =>
    /\ (\A b \in 0..35 : proj.bins[b] * 36 = APP_TOTAL_NODES) =>
         Abs(proj.normEntropy - SCALE) <= EntropySlack
    /\ (\E b \in 0..35 : proj.bins[b] = APP_TOTAL_NODES) => proj.normEntropy = 0
    /\ proj.cos.m # <<>> => FLeq(OneMinus, proj.R) /\ FLeq(proj.R, OnePlus)

\* The entropy loop has run on the bins of 144 nodes each of a grid of 72 x 72 nodes, and
\* has ended within the slack of 1.
C22_Witness ==
  /\ proj.pc = "done"
  /\ \A b \in 0..35 : proj.bins[b] = 144
  /\ proj.normEntropy >= SCALE - EntropySlack
  /\ proj.normEntropy <= SCALE + EntropySlack

\* The number of nodes of grid that the counting loop has counted in the bins 0..35.
Counted(grid) == SumTo([b \in 0..35 |-> BinCount(grid, b)], 0, 35)

\* C23: in the entropy computation of every tick, each node of the grid is counted in
\* exactly one of the 36 bins 0..35, so the bin counts sum to gridSize^2 and the bin
\* probabilities sum to 1, for every reachable grid. (After a tick the engine grid is
\* the grid its entropy loop has read.)
C23_BinsPartition ==
  lastOp.op = "animate" =>
    /\ Counted(Deref(heap, gridRef)) = TOTAL_NODES
    /\ \A i \in DOMAIN gridRef : Min(BinIdx(heap[gridRef[i]].theta), 35) \in 0..35

\* A radius-scan injection leaves every cell beyond the radius as it was, and a pulse,
\* spiral or chaos changes nothing but theta in the cells within it.
ScanFrame ==
  (lastOp'.op = "injectPattern" /\ lastOp'.params.pattern # "elysium") =>
    \A i \in DOMAIN gridRef :
      /\ gridRef'[i] = gridRef[i]
      /\ ~Covered(i)' => heap'[gridRef'[i]] = heap[gridRef[i]]
      /\ lastOp'.params.pattern \in {"pulse", "spiral", "chaos"} =>
           heap'[gridRef'[i]] = [heap[gridRef[i]] EXCEPT !.theta = heap'[gridRef'[i]].theta]

\* C24: a pulse, spiral, chaos, stabilize or unity injection changes only cells whose
\* ordinary (non-toroidal) Euclidean distance from the clamped target is <= radius; every
\* cell farther away is unchanged (no effect wraps around the torus edge), and for pulse,
\* spiral and chaos the affected cells change only in theta (r, omega, alpha, isTitan,
\* isSpark unchanged).
C24_ScanFrame == [][ScanFrame]_vars

\* A spiral of radius 1.5 whose target (-1, -1) is clamped to the corner (0, 0) has
\* shifted the phase of the cell (0, 1) below the corner and has left the cells across the
\* edges (3, 0) and (0, 3) and every other cell beyond the radius as initGrid made them.
C24_Witness ==
  /\ Injected("spiral")
  /\ lastOp.params.radius = 15000 /\ lastOp.params.targetX = -1 /\ lastOp.params.targetY = -1
  /\ stepRef = 0
  /\ \E s \in Seeds :
       /\ \A i \in DOMAIN gridRef : ~Covered(i) => heap[gridRef[i]] = initGrid(s)[i]
       /\ ~Covered(GRID_SIZE - 1) /\ ~Covered(GRID_SIZE * (GRID_SIZE - 1))
       /\ Covered(GRID_SIZE) /\ heap[gridRef[GRID_SIZE]].theta # initGrid(s)[GRID_SIZE].theta
       /\ heap[gridRef[GRID_SIZE]]
            = [initGrid(s)[GRID_SIZE] EXCEPT !.theta = heap[gridRef[GRID_SIZE]].theta]

\* No node of the engine grid is both a Titan and a Spark.
NoTitanSpark ==
  \A i \in DOMAIN gridRef : ~(heap[gridRef[i]].isTitan /\ heap[gridRef[i]].isSpark)

\* A step keeps every Titan a Titan; a tick or a radius scan changes no role; a new
\* Titan comes from an elysium placement only.
RolesKept ==
  \A i \in DOMAIN gridRef :
    /\ i \in DOMAIN gridRef'
    /\ heap[gridRef[i]].isTitan => heap'[gridRef'[i]].isTitan
    /\ (\/ lastOp'.op = "animate"
        \/ lastOp'.op = "injectPattern" /\ lastOp'.params.pattern # "elysium") =>
         /\ heap'[gridRef'[i]].isTitan = heap[gridRef[i]].isTitan
         /\ heap'[gridRef'[i]].isSpark = heap[gridRef[i]].isSpark
    /\ heap'[gridRef'[i]].isTitan # heap[gridRef[i]].isTitan =>
         \/ lastOp'.op = "activateElysiumGateway"
         \/ lastOp'.op = "injectPattern" /\ lastOp'.params.pattern = "elysium"

LastError(outcome) ==
  IF outcome.kind = "error" THEN outcome.error
  ELSE IF outcome.text = "" THEN Error(0, <<"Empty response from Nucleus">>)
  ELSE JsonParse(outcome.text).value

\* The invocations of the operation are at most 3, one more than the retries used; a
\* backoff follows a quota error only, and only while retries are left; what
\* retryWithBackoff throws is the last error, thrown at once when it is no quota error;
\* a successful result is returned as it is.
RetryDiscipline ==
  /\ call.attempts <= 3
  /\ call.pc \in {"awaiting", "backoff"} => call.attempts + call.retries = 3
  /\ call.pc = "backoff" =>
       CallFailed(call.outcome) /\ isQuotaError(LastError(call.outcome)) /\ call.retries > 0
  /\ (call.pc = "resolved" /\ CallFailed(call.outcome)) =>
       /\ call.thrown = [kind |-> "error", error |-> LastError(call.outcome)]
       /\ isQuotaError(LastError(call.outcome)) => call.attempts = 3
  /\ (call.pc = "resolved" /\ call.outcome.kind = "response" /\ ~CallFailed(call.outcome)) =>
       call.thrown.kind = "none" /\ call.value = JsonParse(call.outcome.text).value

\* C29: retryWithBackoff(operation, retries) invokes the operation at most retries+1
\* times (3 with the default), retries only after a quota/overload-class error (status
\* 429/500/503 or matching message), rethrows immediately on any other error and
\* rethrows the last error once retries are exhausted, returns the first successful
\* result, and always terminates when each invocation terminates.
C29_RetryBounded ==
  /\ [](RetryDiscipline)
  /\ (call.pc = "awaiting") ~> (call.pc = "idle")

\* retryWithBackoff has thrown an error that is no quota error at the second invocation,
\* the first having failed with a quota error.
C29_Witness ==
  /\ call.pc = "resolved"
  /\ call.attempts = 2 /\ call.retries = 1
  /\ call.thrown.kind = "error" /\ ~isQuotaError(call.thrown.error)
  /\ call.thrown.error = LastError(call.outcome)

\* At most one animation-frame callback is queued, it is the one requestRef names, and
\* none is queued while the simulation is not running.
OneFrame ==
  /\ frames \in {0, 1}
  /\ requestRef.pending <=> frames = 1
  /\ requestRef.pending <=> isRunning
  /\ requestRef.pending => requestRef.isRunning

\* A tick is the only step of a queued callback and advances the step counter by one;
\* while the simulation is not running no step is a tick, and the grid, the step counter
\* and the metrics history change through injections only, which leave the counter and
\* the history alone.
TicksOnlyWhileRunning ==
  /\ lastOp'.op = "animate" => isRunning /\ frames = 1 /\ stepRef' = stepRef + 1
  /\ stepRef' # stepRef \/ metricsRef' # metricsRef => lastOp'.op = "animate"
  /\ (~isRunning /\ (heap' # heap \/ gridRef' # gridRef)) =>
       lastOp'.op \in {"injectPattern", "activateElysiumGateway"}

\* C25: while the simulation is not running no tick is executed (grid, step counter and
\* metrics history change only through injections), and while it is running at most one
\* animation-frame callback is pending at any time, across start, pause and config
\* changes, so ticks run one at a time and the tick loop is never duplicated.
C25_SingleTickLoop == [](OneFrame) /\ [][TicksOnlyWhileRunning]_vars

\* The simulation has been started, has ticked, has had its config changed while running
\* and has been paused after an injection: no callback is left in the queue.
C25_Witness ==
  /\ lastOp.op = "toggleRun"
  /\ ~isRunning
  /\ stepRef > 0 /\ nInject > 0
  /\ config # DefaultConfig
  /\ frames = 0 /\ ~requestRef.pending

\* The autonomous evolution cycles in existence: the closures of the effect with a timer
\* that will call runEvolution or with a call of runEvolution in flight.
Cycles == {k \in DOMAIN app.closures : Alive(app.closures[k])}

\* The closures whose call of runEvolution is at the given position.
At(pc) == {k \in DOMAIN app.closures : app.closures[k].pc = pc}

\* The autonomous loop asks for an evolutionary thought, or issues its injection, only in
\* a step taken while autonomous mode is on and the simulation is running.
AutonomousOnlyWhileOn ==
  (Cardinality(At("thinking"))' > Cardinality(At("thinking"))
     \/ Cardinality(At("injecting"))' > Cardinality(At("injecting")))
    => app.isAutonomous /\ isRunning

\* C26: at most one autonomous evolution cycle (timer or in-flight runEvolution) exists
\* at any time, and once autonomous mode is switched off or the simulation is paused no
\* further autonomous cycle starts: no evolutionary thought is generated and no injection
\* is issued by the autonomous loop afterwards.
C26_OneAutonomousCycle == [](Cardinality(Cycles) <= 1) /\ [][AutonomousOnlyWhileOn]_vars

\* The interpretation-and-injection requests in flight: those of the control panel and
\* the calls of handleInject awaited by runEvolution.
InFlight ==
  Len(app.pending) + Cardinality(At("injecting"))

\* C27: at most one interpretation-and-injection request is in flight at any time, and
\* isProcessing is true exactly while one is in flight: the requests of the text
\* injection, the unity and elysium buttons, image upload, deep think and the autonomous
\* loop never overlap, and isProcessing does not return to false while a request is
\* still pending.
C27_OneRequestInFlight == InFlight <= 1 /\ (app.isProcessing <=> InFlight = 1)

====
